---- MODULE Spec2Model ----
(***************************************************************************)
(* Crawl orchestration engine of website-bs4-crawler: the URL frontier     *)
(* (URLManager), the worker pipeline and the session lifecycle of          *)
(* WebCrawler, and the persistence calls they make; the RateLimiter and    *)
(* the ProxyManager are modelled on their own, and so are one process_url  *)
(* call with a pool of proxies, the query filter of normalize_url, the     *)
(* extension test of should_crawl, should_crawl on two spellings of a     *)
(* URL, the walk of fetch_sitemap over the sitemap documents, and one      *)
(* crawl without pause under fair scheduling.                              *)
(*                                                                         *)
(* Strings that the code takes apart (netloc, path, extension) are         *)
(* sequences of one-character strings; a URL is the 5-tuple urlparse       *)
(* yields (params are always empty here), and urlunparse/urlparse of such  *)
(* a tuple with a non-empty netloc and a path that is empty or starts      *)
(* with "/" is the identity on the tuple.                                  *)
(***************************************************************************)
EXTENDS Integers, Sequences, FiniteSets, TLC

(* ------------------------------------------------------------------ *)
(* Character strings                                                   *)
(* ------------------------------------------------------------------ *)

\* str.lower() on one character (the upper-case letters the model uses)
LowerChar(c) ==
    CASE c = "E" -> "e" [] c = "X" -> "x" [] c = "H" -> "h" [] c = "T" -> "t"
      [] c = "P" -> "p" [] c = "N" -> "n" [] c = "G" -> "g" [] c = "A" -> "a"
      [] c = "J" -> "j" [] c = "S" -> "s"
      [] OTHER -> c

Lower(s) == [i \in 1..Len(s) |-> LowerChar(s[i])]

\* s[i:].startswith(pat)
StartsWithAt(s, i, pat) ==
    /\ i + Len(pat) - 1 <= Len(s)
    /\ \A k \in 1..Len(pat) : s[i + k - 1] = pat[k]

\* pat in s
Contains(s, pat) == \E i \in 1..Len(s) : StartsWithAt(s, i, pat)

EndsWith(s, pat) ==
    /\ Len(pat) <= Len(s)
    /\ StartsWithAt(s, Len(s) - Len(pat) + 1, pat)

\* str.replace(old, new): left to right, non-overlapping occurrences
RECURSIVE ReplaceFrom(_, _, _, _)
ReplaceFrom(s, i, old, new) ==
    IF i > Len(s) THEN << >>
    ELSE IF StartsWithAt(s, i, old)
         THEN new \o ReplaceFrom(s, i + Len(old), old, new)
         ELSE << s[i] >> \o ReplaceFrom(s, i + 1, old, new)

Replace(s, old, new) == ReplaceFrom(s, 1, old, new)

\* while pat in path: path = path.replace(pat, '/')
RECURSIVE CollapseWhile(_, _)
CollapseWhile(path, pat) ==
    IF Contains(path, pat)
    THEN CollapseWhile(Replace(path, pat, << "/" >>), pat)
    ELSE path

\* index of the last occurrence of character c in s, 0 when absent
LastIndexOf(s, c) ==
    IF \E i \in 1..Len(s) : s[i] = c
    THEN CHOOSE i \in 1..Len(s) : s[i] = c /\ \A j \in (i + 1)..Len(s) : s[j] # c
    ELSE 0

Digits == << "0", "1", "2", "3", "4", "5", "6", "7", "8", "9" >>
IsDigit(c) == \E d \in 1..10 : Digits[d] = c
DigitVal(c) == (CHOOSE d \in 1..10 : Digits[d] = c) - 1

RECURSIVE DigitsToInt(_)
DigitsToInt(s) ==
    IF s = << >> THEN 0
    ELSE 10 * DigitsToInt(SubSeq(s, 1, Len(s) - 1)) + DigitVal(s[Len(s)])

(* ------------------------------------------------------------------ *)
(* urllib.parse results                                                *)
(* ------------------------------------------------------------------ *)

Url(s, n, p, q, f) == [scheme |-> s, netloc |-> n, path |-> p, query |-> q, fragment |-> f]

\* ParseResult.port: the digits after the last ':' of the host part; -1 (None)
\* when there is no port; -2 (ValueError) when the port is not a number in
\* 0..65535.
PortOf(netloc) ==
    LET k == LastIndexOf(netloc, ":")
        p == SubSeq(netloc, k + 1, Len(netloc))
    IN  IF k = 0 \/ p = << >> THEN -1
        ELSE IF \E i \in 1..Len(p) : ~IsDigit(p[i]) THEN -2
        ELSE IF DigitsToInt(p) > 65535 THEN -2
        ELSE DigitsToInt(p)

sHttp  == << "h", "t", "t", "p" >>
sHttps == << "h", "t", "t", "p", "s" >>

\* the allow-list of query parameters kept by normalisation
IMPORTANT_URL_PARAMS == { "id", "page", "category" }

\* the keys the model uses, in the order sorted() puts them
KeyOrder == << "category", "foo", "id", "page" >>

\* the (key, value) pairs of q whose key is k, in order of appearance; parse_qs
\* drops pairs with a blank value
RECURSIVE PairsOfKey(_, _)
PairsOfKey(q, k) ==
    IF q = << >> THEN << >>
    ELSE IF Head(q)[1] = k /\ Head(q)[2] # ""
         THEN << Head(q) >> \o PairsOfKey(Tail(q), k)
         ELSE PairsOfKey(Tail(q), k)

\* urlencode(sorted(filtered_params.items()), doseq=True)
RECURSIVE SortedQueryFrom(_, _, _)
SortedQueryFrom(q, i, allowed) ==
    IF i > Len(KeyOrder) THEN << >>
    ELSE (IF KeyOrder[i] \in allowed THEN PairsOfKey(q, KeyOrder[i]) ELSE << >>)
         \o SortedQueryFrom(q, i + 1, allowed)

FilterQuery(q) == SortedQueryFrom(q, 1, IMPORTANT_URL_PARAMS)

(* ------------------------------------------------------------------ *)
(* URLManager (src/crawler/url_manager.py)                             *)
(* ------------------------------------------------------------------ *)

\* the seed of the crawl: http://ex/
base_url == Url(sHttp, << "e", "x" >>, << "/" >>, << >>, "")

\* URLManager.__init__: base_domain = urlparse(base_url).netloc
base_domain == base_url.netloc

excluded_extensions ==
    { << ".", "j", "p", "g" >>, << ".", "j", "p", "e", "g" >>, << ".", "p", "n", "g" >>,
      << ".", "g", "i", "f" >>, << ".", "c", "s", "s" >>, << ".", "j", "s" >>,
      << ".", "i", "c", "o" >>, << ".", "s", "v", "g" >>, << ".", "w", "o", "f", "f" >>,
      << ".", "w", "o", "f", "f", "2" >>, << ".", "t", "t", "f" >>, << ".", "e", "o", "t" >> }

\* the prefixes should_crawl rejects: a URL string starts with one of them
\* exactly when its scheme is one of these
PseudoSchemes ==
    { << "m", "a", "i", "l", "t", "o" >>, << "t", "e", "l" >>, << "s", "m", "s" >>,
      << "w", "h", "a", "t", "s", "a", "p", "p" >>, << "i", "n", "t", "e", "n", "t" >>,
      << "j", "a", "v", "a", "s", "c", "r", "i", "p", "t" >> }

\* the path rewriting of normalize_url: collapse '/./', then '/../', then drop
\* one trailing slash (except for the root)
NormalizePath(path) ==
    LET p1 == CollapseWhile(path, << "/", ".", "/" >>)
        p2 == CollapseWhile(p1, << "/", ".", ".", "/" >>)
    IN  IF p2 # << "/" >> /\ EndsWith(p2, << "/" >>)
        THEN SubSeq(p2, 1, Len(p2) - 1)
        ELSE p2

\* the netloc rewriting of normalize_url: lower-case, default port removed
NormalizeNetloc(scheme, netloc) ==
    LET n == Lower(netloc)
    IN  IF scheme = sHttp /\ PortOf(netloc) = 80
        THEN Replace(n, << ":", "8", "0" >>, << >>)
        ELSE IF scheme = sHttps /\ PortOf(netloc) = 443
        THEN Replace(n, << ":", "4", "4", "3" >>, << >>)
        ELSE n

\* parsed.port raises ValueError where the condition of line 50 reads it
PortRaises(url) ==
    /\ Lower(url.scheme) \in { sHttp, sHttps }
    /\ PortOf(url.netloc) = -2

\* URLManager.__init__, line 27: important_params or IMPORTANT_URL_PARAMS; None
\* (here the empty set) and the empty set are both falsy
ImportantParams(given) == IF given = {} THEN IMPORTANT_URL_PARAMS ELSE given

\* normalize_url of a URLManager whose self.important_params is allowed
NormalizeWith(url, allowed) ==
    IF PortRaises(url) THEN url
    ELSE Url(Lower(url.scheme),
             NormalizeNetloc(Lower(url.scheme), url.netloc),
             NormalizePath(url.path),
             SortedQueryFrom(url.query, 1, allowed),
             "")

\* normalize_url of the crawler's URLManager, made without important_params
\* (crawler.py:68)
normalize_url(url) ==
    IF PortRaises(url) THEN url
    ELSE Url(Lower(url.scheme),
             NormalizeNetloc(Lower(url.scheme), url.netloc),
             NormalizePath(url.path),
             FilterQuery(url.query),
             "")

\* md5 of the normalised URL, taken as injective
get_url_hash(url) == << "md5", normalize_url(url) >>

is_valid_url(url) == url.netloc # << >> /\ url.scheme # << >>

is_internal_url(url) == url.netloc = base_domain

\* an extension search that finds nothing
get_url_extension_None(url) == << >>

\* get_url_extension: the extension of the last path segment, << >> when the
\* segment has no trailing ".ext"
get_url_extension(url) ==
    LET path     == url.path
        filename == SubSeq(path, LastIndexOf(path, "/") + 1, Len(path))
        d        == LastIndexOf(filename, ".")
    IN  IF d = 0 \/ d = Len(filename) THEN << >>
        ELSE SubSeq(filename, d, Len(filename))

\* should_crawl without the host comparison of lines 138-140
should_crawl_NoInternal(url, vu, vh) ==
    /\ url.scheme \notin PseudoSchemes
    /\ is_valid_url(url)
    /\ normalize_url(url) \notin vu
    /\ get_url_hash(url) \notin vh
    /\ LET ext == get_url_extension(url)
       IN  ~(ext # << >> /\ Lower(ext) \in excluded_extensions)

\* should_crawl without the visited checks of lines 143-151
should_crawl_NoVisited(url, vu, vh) ==
    /\ url.scheme \notin PseudoSchemes
    /\ is_valid_url(url)
    /\ is_internal_url(url)
    /\ LET ext == get_url_extension(url)
       IN  ~(ext # << >> /\ Lower(ext) \in excluded_extensions)

\* should_crawl on a frontier whose visited sets are vu (normalised URLs) and vh
\* (hashes)
should_crawl(url, vu, vh) ==
    /\ url.scheme \notin PseudoSchemes
    /\ is_valid_url(url)
    /\ is_internal_url(url)
    /\ normalize_url(url) \notin vu
    /\ get_url_hash(url) \notin vh
    /\ LET ext == get_url_extension(url)
       IN  ~(ext # << >> /\ Lower(ext) \in excluded_extensions)


\* mark_as_visited: the visited sets after marking url
MarkVisitedUrls(url, vu) == vu \cup { normalize_url(url) }
MarkVisitedHashes(url, vh) == vh \cup { get_url_hash(url) }

(* ------------------------------------------------------------------ *)
(* The site and the capabilities the crawler consumes                  *)
(* ------------------------------------------------------------------ *)

uA1 == Url(sHttp, << "e", "x" >>, << "/", "a" >>, << >>, "")
uA2 == Url(sHttp, << "e", "x" >>, << "/", "a", "/" >>, << >>, "")
uC  == Url(sHttp, << "e", "x" >>, << "/", "c" >>, << >>, "")
uX  == Url(sHttp, << "o", "t", "h", "e", "r" >>, << "/", "x" >>, << >>, "")

CrawlURLs == { base_url, uA1, uA2, uC, uX }

\* a link as the extraction capability reports it
Lk(u, flag) == [url |-> u, is_internal |-> flag]

\* the links the extraction capability reports for a page of the site; it may
\* flag a link of another host as internal
PageLinks(u) ==
    IF u = base_url THEN << Lk(uA1, TRUE), Lk(uX, TRUE), Lk(uA2, TRUE) >>
    ELSE IF u \in { uA1, uA2 } THEN << Lk(uC, TRUE), Lk(uX, FALSE) >>
    ELSE << >>

\* what sitemap discovery may return
SitemapLists == { << >>, << base_url, uX, uA1 >> }

\* the Location header of a redirect response: absent, or one target
Locations == { << >>, << uC >>, << uX >> }

(* ------------------------------------------------------------------ *)
(* Configuration (WebCrawler.__init__)                                 *)
(* ------------------------------------------------------------------ *)

\* an optional integer is << >> (None) or << n >>
MaxConcurrency == 2
max_depth   == << 1 >>
MAX_RETRIES == 3

\* a page count no run reaches: the caller never calls pause()
NeverPause == 9

\* the runs explored: the concurrency and max_pages the orchestrator is
\* constructed with, and what its caller does: how many times it calls start()
\* and resume(), and the number of crawled pages it waits for before it calls
\* pause(), and how many times it calls pause() on an orchestrator that is not
\* running and resume() on one that is running or not paused
Scenarios ==
    { [concurrency |-> MaxConcurrency, max_pages |-> << 2 >>,
       starts |-> 1, resumes |-> 0, pause_after |-> 0,
       noop_pauses |-> 0, noop_resumes |-> 0],
      [concurrency |-> MaxConcurrency, max_pages |-> << 1 >>,
       starts |-> 1, resumes |-> 1, pause_after |-> 1,
       noop_pauses |-> 0, noop_resumes |-> 0],
      [concurrency |-> 1, max_pages |-> << 2 >>,
       starts |-> 1, resumes |-> 1, pause_after |-> 1,
       noop_pauses |-> 0, noop_resumes |-> 0],
      [concurrency |-> 1, max_pages |-> << 1 >>,
       starts |-> 2, resumes |-> 0, pause_after |-> NeverPause,
       noop_pauses |-> 1, noop_resumes |-> 1] }

\* how many start() invocations one orchestrator instance sees (directly or
\* through resume())
MaxStarts == 2

Starts  == 1..MaxStarts
Workers == Starts \X (1..MaxConcurrency)

(* ------------------------------------------------------------------ *)
(* State                                                               *)
(* ------------------------------------------------------------------ *)

VARIABLES
    concurrency,        \* WebCrawler.concurrency
    max_pages,          \* WebCrawler.max_pages, << >> is None
    caller,             \* the calls the caller of the orchestrator still makes
    probe,              \* a URL handed to the URLManager alone, and what it returned
    url_queue,          \* asyncio.Queue of << url, depth >>
    visited_urls,       \* URLManager.visited_urls
    visited_hashes,     \* URLManager.visited_hashes
    crawled_count,
    stats,              \* successful, failed
    is_running,
    is_paused,
    current_session_id, \* 0 is None
    semaphore,          \* free permits of the concurrency gate
    rl_locked,          \* the rate limiter's semaphore of the base domain is held
    rl_last_set,        \* last_request_time has an entry for the base domain
    spc,                \* where each start() invocation is
    closing,            \* the id and status each start() hands to end_crawl_session
    ppc,                \* where the pause() call is
    rpc,                \* where the resume() call is
    pc,                 \* where each worker is
    wurl, wdepth,       \* the item a worker dequeued
    wattempt,           \* fetch_url's attempt
    wlinks,             \* the links of the page a worker fetched
    db_sessions,        \* CrawlSession.status by id
    db_links,           \* Link rows: url, is_internal (is_crawled is never set)
    hist,               \* history of the run, for stating properties
    wproxy,             \* fetch_url's proxy, << >> is None
    ftrace,             \* what one fetch_url call did, when it is observed
    now,                \* time.time(), in seconds
    domain_specific_limits, \* RateLimiter.domain_specific_limits, << >> is no entry
    last_request_time,  \* RateLimiter.last_request_time, << >> is no entry
    semaphores,         \* RateLimiter.semaphores: the value, << >> is no entry
    apc,                \* where each call of RateLimiter.wait is
    adomain,            \* its domain
    amin_wait,          \* its min_wait_time
    awake,              \* the time its sleep ends
    rhist,              \* the adaptive_wait calls made, and the last one
    proxies,            \* ProxyManager.proxies
    current_index,      \* ProxyManager.current_index
    rotation_count,     \* ProxyManager.rotation_count
    failed_proxies,     \* ProxyManager.failed_proxies
    working_proxies,    \* ProxyManager.working_proxies: proxy URL -> count
    phist               \* the calls made to the ProxyManager and what they returned

crawlVars == << url_queue, visited_urls, visited_hashes, crawled_count, stats,
                is_running, is_paused, current_session_id, semaphore, rl_locked,
                rl_last_set, spc, closing, ppc, rpc, pc, wurl, wdepth,
                wattempt, wlinks, db_sessions, db_links, hist, wproxy, ftrace >>

\* the state that only fetch_url changes
fetchVars == << wproxy, ftrace >>

rateVars == << now, domain_specific_limits, last_request_time, semaphores, apc,
               adomain, amin_wait, awake, rhist >>

proxyVars == << proxies, current_index, rotation_count, failed_proxies,
                working_proxies, phist >>

vars == << concurrency, max_pages, caller, probe, crawlVars, rateVars, proxyVars >>

NoProbe == [phase |-> 0, url |-> base_url, once |-> base_url, twice |-> base_url]

\* no fetch_url call is observed
NoTrace == [on |-> FALSE, attempts |-> 0, status |-> 0, used |-> << >>,
            only_retryable |-> TRUE, sleeps |-> 0, outcome |-> "pending",
            code |-> << >>]

\* the crawler after __init__, with the calls its caller is going to make
InitScenario(sc) ==
    /\ concurrency = sc.concurrency
    /\ max_pages = sc.max_pages
    /\ caller = [starts |-> sc.starts, resumes |-> sc.resumes,
                 pause_after |-> sc.pause_after,
                 noop_pauses |-> sc.noop_pauses,
                 noop_resumes |-> sc.noop_resumes]
    /\ url_queue = << >>
    /\ visited_urls = {}
    /\ visited_hashes = {}
    /\ crawled_count = 0
    /\ stats = [successful |-> 0, failed |-> 0]
    /\ is_running = FALSE
    /\ is_paused = FALSE
    /\ current_session_id = 0
    /\ semaphore = concurrency
    /\ rl_locked = FALSE
    /\ rl_last_set = FALSE
    /\ spc = [s \in Starts |-> "idle"]
    /\ closing = [s \in Starts |-> [id |-> 0, status |-> "none", raised |-> FALSE]]
    /\ ppc = [at |-> "idle", id |-> 0]
    /\ rpc = "idle"
    /\ pc = [w \in Workers |-> "idle"]
    /\ wurl = [w \in Workers |-> base_url]
    /\ wdepth = [w \in Workers |-> 0]
    /\ wattempt = [w \in Workers |-> 0]
    /\ wlinks = [w \in Workers |-> << >>]
    /\ db_sessions = << >>
    /\ db_links = << >>
    /\ hist = [started |-> 0, dropped_deep |-> FALSE, link_enq |-> FALSE,
               redirect_enq |-> FALSE, paused_visited |-> {}, resumed |-> FALSE]
    /\ wproxy = [w \in Workers |-> << >>]
    /\ ftrace = NoTrace

InitCrawler == \E sc \in Scenarios : InitScenario(sc)


(* ------------------------------------------------------------------ *)
(* DatabaseManager (src/database/db_manager.py)                        *)
(* ------------------------------------------------------------------ *)

\* the sessions of the base URL that start_crawl_session takes up again
OpenSessions(db) == { i \in DOMAIN db : db[i] \in { "running", "paused" } }

\* start_crawl_session: the id it returns
StartSessionId(db) ==
    IF OpenSessions(db) # {}
    THEN CHOOSE i \in OpenSessions(db) : \A j \in OpenSessions(db) : i <= j
    ELSE Len(db) + 1

\* start_crawl_session: the sessions afterwards
StartSessionDb(db) ==
    IF OpenSessions(db) # {}
    THEN [db EXCEPT ![StartSessionId(db)] = "running"]
    ELSE Append(db, "running")

\* end_crawl_session and pause_crawl_session: set the status of an existing row
SetSessionStatus(db, id, status) ==
    IF id \in DOMAIN db THEN [db EXCEPT ![id] = status] ELSE db

\* get_uncrawled_links: target_url of the internal rows of the base domain
RECURSIVE get_uncrawled_links(_)
get_uncrawled_links(links) ==
    IF links = << >> THEN << >>
    ELSE IF Head(links).is_internal /\ Head(links).url.netloc = base_domain
         THEN << Head(links).url >> \o get_uncrawled_links(Tail(links))
         ELSE get_uncrawled_links(Tail(links))

(* ------------------------------------------------------------------ *)
(* Enqueueing                                                          *)
(* ------------------------------------------------------------------ *)

\* the queue after put((u, depth)) for each u of urls
RECURSIVE PutAll(_, _, _)
PutAll(q, urls, depth) ==
    IF urls = << >> THEN q
    ELSE PutAll(Append(q, << Head(urls), depth >>), Tail(urls), depth)

\* start(): the sitemap URLs that pass should_crawl
RECURSIVE SitemapAccepted(_, _, _)
SitemapAccepted(urls, vu, vh) ==
    IF urls = << >> THEN << >>
    ELSE (IF should_crawl(Head(urls), vu, vh) THEN << Head(urls) >> ELSE << >>)
         \o SitemapAccepted(Tail(urls), vu, vh)

\* process_url: the links that are enqueued
RECURSIVE LinksAccepted(_, _, _)
LinksAccepted(links, vu, vh) ==
    IF links = << >> THEN << >>
    ELSE (IF Head(links).is_internal /\ should_crawl(Head(links).url, vu, vh)
          THEN << Head(links).url >> ELSE << >>)
         \o LinksAccepted(Tail(links), vu, vh)

\* a link that inherits the depth of its page
LinkDepthSame(depth) == depth

\* process_url: the depth of a discovered link
LinkDepth(depth) == depth + 1

\* fetch_url: the depth of a redirect target
RedirectDepth(depth) == depth

\* fetch_url: the redirect targets that are enqueued
RedirectAccepted(loc, vu, vh) ==
    IF loc # << >> /\ is_internal_url(loc[1]) /\ should_crawl(loc[1], vu, vh)
    THEN loc ELSE << >>

\* the entries a step appended to the queue
Appended(q, q2) == { q2[i] : i \in (Len(q) + 1)..Len(q2) }

(* ------------------------------------------------------------------ *)
(* WebCrawler.start (src/crawler/crawler.py:101-168)                   *)
(* ------------------------------------------------------------------ *)

\* the slot the next start() invocation takes
FreeSlots == { s \in Starts : spc[s] = "idle" }
NextSlot  == CHOOSE s \in FreeSlots : \A t \in FreeSlots : s <= t

WorkersOf(s) == { w \in Workers : w[1] = s /\ w[2] <= concurrency }

\* the test of line 103, never true
AlreadyRunningNever == FALSE

\* the test of line 103
AlreadyRunning == is_running

\* start() called while running: lines 103-105
StartRejected ==
    /\ caller.starts > 0
    /\ AlreadyRunning
    /\ caller' = [caller EXCEPT !.starts = @ - 1]
    /\ UNCHANGED << rateVars, proxyVars, concurrency, max_pages, probe, crawlVars >>

\* start() called from outside: lines 103-112, up to the await of init_db
StartCall ==
    /\ caller.starts > 0
    /\ ~AlreadyRunning
    /\ FreeSlots # {}
    /\ is_running' = TRUE
    /\ is_paused' = FALSE
    /\ spc' = [spc EXCEPT ![NextSlot] = "init_db"]
    /\ UNCHANGED << url_queue, visited_urls, visited_hashes, crawled_count, stats,
                    current_session_id, semaphore, rl_locked, rl_last_set, closing,
                    ppc, rpc, pc, wurl, wdepth, wattempt, wlinks, db_sessions,
                    db_links, hist >>
    /\ caller' = [caller EXCEPT !.starts = @ - 1]
    /\ UNCHANGED << fetchVars, rateVars, proxyVars, concurrency, max_pages, probe >>

\* init_db returned: line 112, up to the await of start_crawl_session
InitDbDone(s) ==
    /\ spc[s] = "init_db"
    /\ spc' = [spc EXCEPT ![s] = "open_session"]
    /\ UNCHANGED << url_queue, visited_urls, visited_hashes, crawled_count, stats,
                    is_running, is_paused, current_session_id, semaphore, rl_locked,
                    rl_last_set, closing, ppc, rpc, pc, wurl, wdepth, wattempt,
                    wlinks, db_sessions, db_links, hist >>
    /\ UNCHANGED << fetchVars, rateVars, proxyVars, concurrency, max_pages, caller, probe >>

\* init_db or start_crawl_session raised: lines 112 and 124 are outside the
\* try block of line 132, the exception leaves start() at once
StartupRaised(s) ==
    /\ spc[s] \in { "init_db", "open_session" }
    /\ spc' = [spc EXCEPT ![s] = "raised"]
    /\ UNCHANGED << url_queue, visited_urls, visited_hashes, crawled_count, stats,
                    is_running, is_paused, current_session_id, semaphore, rl_locked,
                    rl_last_set, closing, ppc, rpc, pc, wurl, wdepth, wattempt,
                    wlinks, db_sessions, db_links, hist >>
    /\ UNCHANGED << fetchVars, rateVars, proxyVars, concurrency, max_pages, caller, probe >>

\* start_crawl_session returned: lines 124-144, the seed is enqueued and the
\* sitemap request is under way
OpenSessionDone(s) ==
    /\ spc[s] = "open_session"
    /\ current_session_id' = StartSessionId(db_sessions)
    /\ db_sessions' = StartSessionDb(db_sessions)
    /\ url_queue' = Append(url_queue, << base_url, 0 >>)
    /\ spc' = [spc EXCEPT ![s] = "sitemap"]
    /\ UNCHANGED << visited_urls, visited_hashes, crawled_count, stats, is_running,
                    is_paused, semaphore, rl_locked, rl_last_set, closing, ppc, rpc,
                    pc, wurl, wdepth, wattempt, wlinks, db_links, hist >>
    /\ UNCHANGED << fetchVars, rateVars, proxyVars, concurrency, max_pages, caller, probe >>

\* fetch_sitemap returned (an exception in it is the empty list): lines 144-156,
\* the workers are created
SitemapDone(s) ==
    /\ spc[s] = "sitemap"
    /\ \E sm \in SitemapLists :
         url_queue' = PutAll(url_queue, SitemapAccepted(sm, visited_urls, visited_hashes), 0)
    /\ spc' = [spc EXCEPT ![s] = "workers"]
    /\ pc' = [w \in Workers |-> IF w \in WorkersOf(s) THEN "loop" ELSE pc[w]]
    /\ UNCHANGED << visited_urls, visited_hashes, crawled_count, stats, is_running,
                    is_paused, current_session_id, semaphore, rl_locked, rl_last_set,
                    closing, ppc, rpc, wurl, wdepth, wattempt, wlinks, db_sessions,
                    db_links, hist >>
    /\ UNCHANGED << fetchVars, rateVars, proxyVars, concurrency, max_pages, caller, probe >>

\* the status of line 163, whatever is_paused is
ClosingStatusCompleted == "completed"

\* the status the finally block hands to end_crawl_session: line 163
ClosingStatus == IF is_paused THEN "paused" ELSE "completed"

\* the finally block, lines 158-165, up to the await of end_crawl_session: after
\* gather returned, or after an exception inside the try block (the HTTP
\* session could not be created)
StartFinally(s) ==
    /\ \/ spc[s] = "workers" /\ \A w \in WorkersOf(s) : pc[w] = "exit"
       \/ spc[s] = "sitemap"
    /\ is_running' = FALSE
    /\ IF current_session_id # 0
       THEN /\ closing' = [closing EXCEPT ![s] =
                             [id |-> current_session_id,
                              status |-> ClosingStatus,
                              raised |-> spc[s] = "sitemap"]]
            /\ spc' = [spc EXCEPT ![s] = "closing"]
       ELSE /\ closing' = closing
            /\ spc' = [spc EXCEPT ![s] = IF spc[s] = "sitemap" THEN "raised" ELSE "done"]
    /\ UNCHANGED << url_queue, visited_urls, visited_hashes, crawled_count, stats,
                    is_paused, current_session_id, semaphore, rl_locked, rl_last_set,
                    ppc, rpc, pc, wurl, wdepth, wattempt, wlinks, db_sessions,
                    db_links, hist >>
    /\ UNCHANGED << fetchVars, rateVars, proxyVars, concurrency, max_pages, caller, probe >>

\* end_crawl_session returned: lines 165-168, start() exits
StartClosed(s) ==
    /\ spc[s] = "closing"
    /\ db_sessions' = SetSessionStatus(db_sessions, closing[s].id, closing[s].status)
    /\ spc' = [spc EXCEPT ![s] = IF closing[s].raised THEN "raised" ELSE "done"]
    /\ UNCHANGED << url_queue, visited_urls, visited_hashes, crawled_count, stats,
                    is_running, is_paused, current_session_id, semaphore, rl_locked,
                    rl_last_set, closing, ppc, rpc, pc, wurl, wdepth, wattempt,
                    wlinks, db_links, hist >>
    /\ UNCHANGED << fetchVars, rateVars, proxyVars, concurrency, max_pages, caller, probe >>

(* ------------------------------------------------------------------ *)
(* WebCrawler.pause and resume (src/crawler/crawler.py:651-695)        *)
(* ------------------------------------------------------------------ *)

\* the test of line 653
NotRunning == ~is_running

\* pause() while not running: lines 653-655
PauseNoop ==
    /\ caller.noop_pauses > 0
    /\ NotRunning
    /\ ppc.at = "idle"
    /\ caller' = [caller EXCEPT !.noop_pauses = @ - 1]
    /\ UNCHANGED << rateVars, proxyVars, concurrency, max_pages, probe, crawlVars >>

\* pause() while running: lines 653-662, up to the await of pause_crawl_session
\* (all of it when there is no session id)
PauseCall ==
    /\ crawled_count >= caller.pause_after
    /\ ~NotRunning
    /\ ppc.at = "idle"
    /\ is_paused' = TRUE
    /\ hist' = [hist EXCEPT !.paused_visited = visited_urls, !.resumed = FALSE]
    /\ IF current_session_id # 0
       THEN /\ ppc' = [at |-> "db", id |-> current_session_id]
            /\ is_running' = is_running
       ELSE /\ ppc' = ppc
            /\ is_running' = FALSE
    /\ UNCHANGED << url_queue, visited_urls, visited_hashes, crawled_count, stats,
                    current_session_id, semaphore, rl_locked, rl_last_set, spc,
                    closing, rpc, pc, wurl, wdepth, wattempt, wlinks, db_sessions,
                    db_links >>
    /\ UNCHANGED << fetchVars, rateVars, proxyVars, concurrency, max_pages, caller, probe >>

\* pause_crawl_session returned: lines 662-665
PauseDone ==
    /\ ppc.at = "db"
    /\ db_sessions' = SetSessionStatus(db_sessions, ppc.id, "paused")
    /\ is_running' = FALSE
    /\ ppc' = [at |-> "idle", id |-> 0]
    /\ UNCHANGED << url_queue, visited_urls, visited_hashes, crawled_count, stats,
                    is_paused, current_session_id, semaphore, rl_locked, rl_last_set,
                    spc, closing, rpc, pc, wurl, wdepth, wattempt, wlinks, db_links,
                    hist >>
    /\ UNCHANGED << fetchVars, rateVars, proxyVars, concurrency, max_pages, caller, probe >>

\* the tests of lines 669 and 673, never true
ResumeRejectedNever == FALSE

\* the tests of lines 669 and 673
ResumeRejected == is_running \/ ~is_paused

\* resume() while running or not paused: lines 669-675
ResumeNoop ==
    /\ caller.noop_resumes > 0
    /\ ResumeRejected
    /\ rpc = "idle"
    /\ caller' = [caller EXCEPT !.noop_resumes = @ - 1]
    /\ UNCHANGED << rateVars, proxyVars, concurrency, max_pages, probe, crawlVars >>

\* resume() while paused: lines 669-680, up to the await of get_uncrawled_links
ResumeCall ==
    /\ caller.resumes > 0
    /\ ~ResumeRejected
    /\ rpc = "idle"
    /\ FreeSlots # {}
    /\ rpc' = "reading"
    /\ UNCHANGED << url_queue, visited_urls, visited_hashes, crawled_count, stats,
                    is_running, is_paused, current_session_id, semaphore, rl_locked,
                    rl_last_set, spc, closing, ppc, pc, wurl, wdepth, wattempt,
                    wlinks, db_sessions, db_links, hist >>
    /\ caller' = [caller EXCEPT !.resumes = @ - 1]
    /\ UNCHANGED << fetchVars, rateVars, proxyVars, concurrency, max_pages, probe >>

\* get_uncrawled_links returned: lines 680-695, and start() up to the await of
\* init_db
ResumeRead ==
    /\ rpc = "reading"
    /\ is_running \/ FreeSlots # {} \/ get_uncrawled_links(db_links) = << >>
    /\ rpc' = "idle"
    /\ LET links == get_uncrawled_links(db_links)
       IN  IF links = << >>
           THEN UNCHANGED << url_queue, is_running, is_paused, spc, hist >>
           ELSE /\ url_queue' = PutAll(url_queue, links, 0)
                /\ is_paused' = FALSE
                /\ hist' = [hist EXCEPT !.resumed = TRUE]
                /\ IF is_running
                   THEN UNCHANGED << is_running, spc >>
                   ELSE /\ is_running' = TRUE
                        /\ spc' = [spc EXCEPT ![NextSlot] = "init_db"]
    /\ UNCHANGED << visited_urls, visited_hashes, crawled_count, stats,
                    current_session_id, semaphore, rl_locked, rl_last_set, closing,
                    ppc, pc, wurl, wdepth, wattempt, wlinks, db_sessions, db_links >>
    /\ UNCHANGED << fetchVars, rateVars, proxyVars, concurrency, max_pages, caller, probe >>


(* ------------------------------------------------------------------ *)
(* WebCrawler.worker (src/crawler/crawler.py:170-226)                  *)
(* ------------------------------------------------------------------ *)

\* the process_url tasks that are not done
TaskPcs == { "task", "fetch", "save_page", "save_links" }
AllTasksDone == \A w \in Workers : pc[w] \notin TaskPcs

\* rate_limiter.wait(url), lines 212 and rate_limiter.py:48-63, up to its first
\* suspension: the domain's semaphore is free and no pause is due (the task is
\* created, lines 215-220), or a pause is due (sleep, holding the semaphore),
\* or the semaphore is held
EnterRateLimiter(w) ==
    \/ /\ ~rl_locked
       /\ rl_locked' = FALSE
       /\ rl_last_set' = TRUE
       /\ pc' = [pc EXCEPT ![w] = "task"]
    \/ /\ ~rl_locked
       /\ rl_last_set
       /\ rl_locked' = TRUE
       /\ rl_last_set' = rl_last_set
       /\ pc' = [pc EXCEPT ![w] = "rl_sleep"]
    \/ /\ rl_locked
       /\ rl_locked' = TRUE
       /\ rl_last_set' = rl_last_set
       /\ pc' = [pc EXCEPT ![w] = "rl_wait"]

\* async with self.semaphore, line 210
EnterGate(w) ==
    \/ /\ semaphore > 0
       /\ semaphore' = semaphore - 1
       /\ EnterRateLimiter(w)
    \/ /\ semaphore = 0
       /\ semaphore' = semaphore
       /\ pc' = [pc EXCEPT ![w] = "gate_wait"]
       /\ UNCHANGED << rl_locked, rl_last_set >>

\* a depth check that never rejects
DepthExceededNever(depth) == FALSE

\* line 193
DepthExceeded(depth) == max_depth # << >> /\ depth > max_depth[1]

\* line 198
PageLimitReached(count) == max_pages # << >> /\ count >= max_pages[1]

\* line 205
Recheck(url, vu, vh) == should_crawl(url, vu, vh)

\* the loop condition, line 180
WorkerLoop(w) ==
    /\ pc[w] = "loop"
    /\ pc' = [pc EXCEPT ![w] = IF is_running /\ ~is_paused THEN "get" ELSE "exit"]
    /\ UNCHANGED << url_queue, visited_urls, visited_hashes, crawled_count, stats,
                    is_running, is_paused, current_session_id, semaphore, rl_locked,
                    rl_last_set, spc, closing, ppc, rpc, wurl, wdepth, wattempt,
                    wlinks, db_sessions, db_links, hist >>
    /\ UNCHANGED << fetchVars, rateVars, proxyVars, concurrency, max_pages, caller, probe >>

\* queue.get() returned an item: lines 183-212
WorkerGet(w) ==
    /\ pc[w] = "get"
    /\ url_queue # << >>
    /\ url_queue' = Tail(url_queue)
    /\ LET url   == Head(url_queue)[1]
           depth == Head(url_queue)[2]
       IN  IF DepthExceeded(depth)
           THEN /\ pc' = [pc EXCEPT ![w] = "loop"]
                /\ hist' = [hist EXCEPT !.dropped_deep = TRUE]
                /\ UNCHANGED << is_running, semaphore, rl_locked, rl_last_set, wurl,
                                wdepth >>
           ELSE IF PageLimitReached(crawled_count)
           THEN /\ pc' = [pc EXCEPT ![w] = "exit"]
                /\ is_running' = FALSE
                /\ UNCHANGED << semaphore, rl_locked, rl_last_set, wurl, wdepth, hist >>
           ELSE IF ~Recheck(url, visited_urls, visited_hashes)
           THEN /\ pc' = [pc EXCEPT ![w] = "loop"]
                /\ UNCHANGED << is_running, semaphore, rl_locked, rl_last_set, wurl,
                                wdepth, hist >>
           ELSE /\ wurl' = [wurl EXCEPT ![w] = url]
                /\ wdepth' = [wdepth EXCEPT ![w] = depth]
                /\ EnterGate(w)
                /\ UNCHANGED << is_running, hist >>
    /\ UNCHANGED << visited_urls, visited_hashes, crawled_count, stats, is_paused,
                    current_session_id, spc, closing, ppc, rpc, wattempt, wlinks,
                    db_sessions, db_links >>
    /\ UNCHANGED << fetchVars, rateVars, proxyVars, concurrency, max_pages, caller, probe >>

\* queue.get() timed out: lines 184-190
WorkerTimeout(w) ==
    /\ pc[w] = "get"
    /\ url_queue = << >>
    /\ IF AllTasksDone
       THEN /\ is_running' = FALSE
            /\ pc' = [pc EXCEPT ![w] = "exit"]
       ELSE /\ is_running' = is_running
            /\ pc' = [pc EXCEPT ![w] = "loop"]
    /\ UNCHANGED << url_queue, visited_urls, visited_hashes, crawled_count, stats,
                    is_paused, current_session_id, semaphore, rl_locked, rl_last_set,
                    spc, closing, ppc, rpc, wurl, wdepth, wattempt, wlinks,
                    db_sessions, db_links, hist >>
    /\ UNCHANGED << fetchVars, rateVars, proxyVars, concurrency, max_pages, caller, probe >>

\* a permit of the gate became free
GateAcquired(w) ==
    /\ pc[w] = "gate_wait"
    /\ semaphore > 0
    /\ semaphore' = semaphore - 1
    /\ EnterRateLimiter(w)
    /\ UNCHANGED << url_queue, visited_urls, visited_hashes, crawled_count, stats,
                    is_running, is_paused, current_session_id, spc, closing, ppc, rpc,
                    wurl, wdepth, wattempt, wlinks, db_sessions, db_links, hist >>
    /\ UNCHANGED << fetchVars, rateVars, proxyVars, concurrency, max_pages, caller, probe >>

\* the domain's semaphore became free
RateAcquired(w) ==
    /\ pc[w] = "rl_wait"
    /\ ~rl_locked
    /\ EnterRateLimiter(w)
    /\ UNCHANGED << url_queue, visited_urls, visited_hashes, crawled_count, stats,
                    is_running, is_paused, current_session_id, semaphore, spc, closing,
                    ppc, rpc, wurl, wdepth, wattempt, wlinks, db_sessions, db_links,
                    hist >>
    /\ UNCHANGED << fetchVars, rateVars, proxyVars, concurrency, max_pages, caller, probe >>

\* a rate limiter that leaves wait() without freeing the domain's semaphore
RateSleptHolding(w) ==
    /\ pc[w] = "rl_sleep"
    /\ rl_locked' = TRUE
    /\ rl_last_set' = TRUE
    /\ pc' = [pc EXCEPT ![w] = "task"]
    /\ UNCHANGED << url_queue, visited_urls, visited_hashes, crawled_count, stats,
                    is_running, is_paused, current_session_id, semaphore, spc, closing,
                    ppc, rpc, wurl, wdepth, wattempt, wlinks, db_sessions, db_links,
                    hist >>
    /\ UNCHANGED << fetchVars, rateVars, proxyVars, concurrency, max_pages, caller, probe >>

\* the pause of the rate limiter is over: rate_limiter.py:60-63, then lines
\* 215-220, the task is created
RateSlept(w) ==
    /\ pc[w] = "rl_sleep"
    /\ rl_locked' = FALSE
    /\ rl_last_set' = TRUE
    /\ pc' = [pc EXCEPT ![w] = "task"]
    /\ UNCHANGED << url_queue, visited_urls, visited_hashes, crawled_count, stats,
                    is_running, is_paused, current_session_id, semaphore, spc, closing,
                    ppc, rpc, wurl, wdepth, wattempt, wlinks, db_sessions, db_links,
                    hist >>
    /\ UNCHANGED << fetchVars, rateVars, proxyVars, concurrency, max_pages, caller, probe >>


(* ------------------------------------------------------------------ *)
(* RateLimiter (src/webcrawler/crawler/rate_limiter.py)                *)
(* ------------------------------------------------------------------ *)

\* Rates and intervals are exact fractions << numerator, denominator >>; the
\* code computes them in floating point.
RECURSIVE Gcd(_, _)
Gcd(a, b) == IF b = 0 THEN a ELSE Gcd(b, a % b)

Frac(n, d) == << n \div Gcd(n, d), d \div Gcd(n, d) >>

\* n1/d1 < n2/d2, by integer parts and then the reciprocals of the remainders
RECURSIVE LessThan(_, _, _, _)
LessThan(n1, d1, n2, d2) ==
    IF n1 \div d1 # n2 \div d2 THEN n1 \div d1 < n2 \div d2
    ELSE IF n2 % d2 = 0 THEN FALSE
    ELSE IF n1 % d1 = 0 THEN TRUE
    ELSE LessThan(d2, n2 % d2, d1, n1 % d1)

FracLess(a, b) == LessThan(a[1], a[2], b[1], b[2])
FracMin(a, b)  == IF FracLess(b, a) THEN b ELSE a

\* the domains of the URLs handed to the limiter, and the calls of wait() that
\* may be in progress together
Domains   == { "ex", "other" }
MaxAcquirers == 4
Acquirers == 1..MaxAcquirers

\* the domain of the URL each of them is called with
UrlDomain(c) == IF c = MaxAcquirers THEN "other" ELSE "ex"

\* time.time() when the limiter is constructed, and how long it is observed
Epoch   == 100
MaxTime == 6

\* the adaptive_wait calls made while wait() calls are in progress, and on
\* their own
MaxPacedReports == 1
MaxReports      == 8

\* response times in milliseconds, and status codes
ResponseTimes == { 500, 1000, 3000, 5000, 6000 }
StatusCodes   == { 200, 404, 429 }

\* those reported while wait() calls are in progress
PacedResponseTimes == { 500, 6000 }
PacedStatusCodes   == { 200 }

\* RateLimiter() as WebCrawler.__init__ constructs it: lines 15-26
rate_limit == << 1, 2 >>

InitRateLimiter ==
    /\ now = Epoch
    /\ domain_specific_limits = [d \in Domains |-> << >>]
    /\ last_request_time = [d \in Domains |-> << >>]
    /\ semaphores = [d \in Domains |-> << >>]
    /\ apc = [c \in Acquirers |-> "idle"]
    /\ adomain = [c \in Acquirers |-> "ex"]
    /\ amin_wait = [c \in Acquirers |-> << 0, 1 >>]
    /\ awake = [c \in Acquirers |-> << 0, 1 >>]
    /\ rhist = [reports |-> 0, domain |-> "ex", response_time |-> 3000,
                status_code |-> 404]

\* domain_specific_limits.get(domain, rate_limit): lines 43 and 85
DomainRate(limits, d) == IF limits[d] = << >> THEN rate_limit ELSE limits[d]

\* line 46
MinWaitTime(rate) == IF rate[1] > 0 THEN << rate[2], rate[1] >> ELSE << 0, 1 >>

\* last_request_time.get(domain, 0): line 50
LastTime(d) == IF last_request_time[d] = << >> THEN 0 ELSE last_request_time[d][1]

\* inside the domain's semaphore, lines 50-63, up to the sleep or to the end
InsideGate(c, d, mw) ==
    LET elapsed == now - LastTime(d)
    IN  IF elapsed * mw[2] < mw[1]
        THEN /\ apc' = [apc EXCEPT ![c] = "sleeping"]
             /\ awake' = [awake EXCEPT ![c] = << LastTime(d) * mw[2] + mw[1], mw[2] >>]
             /\ semaphores' = [semaphores EXCEPT ![d] = << 0 >>]
             /\ UNCHANGED last_request_time
        ELSE /\ apc' = [apc EXCEPT ![c] = "done"]
             /\ last_request_time' = [last_request_time EXCEPT ![d] = << now >>]
             /\ semaphores' = [semaphores EXCEPT ![d] = << 1 >>]
             /\ UNCHANGED awake

\* the semaphore of line 48, taken whatever its value
GateFreeAlways(d) == TRUE

\* the semaphore of line 48 is taken only when it is free
GateFree(d) == semaphores[d] # << 0 >>

\* wait(url) is called: lines 35-48, and lines 50-63 when the semaphore is free
WaitCall(c, d) ==
    /\ apc[c] = "idle"
    /\ adomain' = [adomain EXCEPT ![c] = d]
    /\ LET mw == MinWaitTime(DomainRate(domain_specific_limits, d))
       IN  /\ amin_wait' = [amin_wait EXCEPT ![c] = mw]
           /\ IF GateFree(d)
              THEN InsideGate(c, d, mw)
              ELSE /\ apc' = [apc EXCEPT ![c] = "queued"]
                   /\ UNCHANGED << last_request_time, semaphores, awake >>
    /\ UNCHANGED << now, domain_specific_limits, rhist >>
    /\ UNCHANGED << proxyVars, concurrency, max_pages, caller, probe, crawlVars >>

\* a call queued at line 48 gets the semaphore: lines 48-63
GateEnter(c) ==
    /\ apc[c] = "queued"
    /\ GateFree(adomain[c])
    /\ InsideGate(c, adomain[c], amin_wait[c])
    /\ UNCHANGED << now, domain_specific_limits, adomain, amin_wait, rhist >>
    /\ UNCHANGED << proxyVars, concurrency, max_pages, caller, probe, crawlVars >>

\* the sleep of line 60 is over: line 63, and the semaphore is released
SleepDone(c) ==
    /\ apc[c] = "sleeping"
    /\ now * awake[c][2] >= awake[c][1]
    /\ last_request_time' = [last_request_time EXCEPT ![adomain[c]] = << now >>]
    /\ semaphores' = [semaphores EXCEPT ![adomain[c]] = << 1 >>]
    /\ apc' = [apc EXCEPT ![c] = "done"]
    /\ UNCHANGED << now, domain_specific_limits, adomain, amin_wait, awake, rhist >>
    /\ UNCHANGED << proxyVars, concurrency, max_pages, caller, probe, crawlVars >>

\* a second passes
Tick ==
    /\ now < Epoch + MaxTime
    /\ now' = now + 1
    /\ UNCHANGED << domain_specific_limits, last_request_time, semaphores, apc,
                    adomain, amin_wait, awake, rhist >>
    /\ UNCHANGED << proxyVars, concurrency, max_pages, caller, probe, crawlVars >>

\* line 89, leaving the limit as it is
HalvedNot(limit) == limit

\* line 89
Halved(limit) == Frac(limit[1], limit[2] * 2)

\* line 96, without the ceiling
RaisedUncapped(limit) == Frac(limit[1] * 11, limit[2] * 10)

\* line 96
Raised(limit) == FracMin(Frac(limit[1] * 11, limit[2] * 10), << 1, 1 >>)

\* the test of line 88, and the test of line 94
SlowDown(rt, sc)    == sc = 429 \/ rt > 5000
FastSuccess(rt, sc) == sc = 200 /\ rt < 1000

\* adaptive_wait: the limits afterwards, lines 84-98
AdaptedLimits(limits, d, rt, sc) ==
    LET current_limit == DomainRate(limits, d)
    IN  IF SlowDown(rt, sc)
        THEN [limits EXCEPT ![d] = Halved(current_limit)]
        ELSE IF FastSuccess(rt, sc) /\ FracLess(current_limit, Raised(current_limit))
             THEN [limits EXCEPT ![d] = Raised(current_limit)]
             ELSE limits

\* adaptive_wait(url, response_time, status_code): lines 75-99
AdaptiveWait(d, rt, sc, max) ==
    /\ rhist.reports < max
    /\ domain_specific_limits' = AdaptedLimits(domain_specific_limits, d, rt, sc)
    /\ rhist' = [reports |-> rhist.reports + 1, domain |-> d, response_time |-> rt,
                 status_code |-> sc]
    /\ UNCHANGED << now, last_request_time, semaphores, apc, adomain, amin_wait, awake >>
    /\ UNCHANGED << proxyVars, concurrency, max_pages, caller, probe, crawlVars >>

(* ------------------------------------------------------------------ *)
(* ProxyManager (src/utils/proxy_manager.py)                           *)
(* ------------------------------------------------------------------ *)

\* str.split(':')
RECURSIVE SplitColon(_)
SplitColon(s) ==
    IF \A i \in 1..Len(s) : s[i] # ":"
    THEN << s >>
    ELSE LET i == CHOOSE k \in 1..Len(s) : s[k] = ":" /\ \A j \in 1..(k - 1) : s[j] # ":"
         IN  << SubSeq(s, 1, i - 1) >> \o SplitColon(SubSeq(s, i + 1, Len(s)))

\* format_proxy_url: lines 67-77, << >> is None
format_proxy_url(proxy_string) ==
    LET parts == SplitColon(proxy_string)
        http  == << "h", "t", "t", "p", ":", "/", "/" >>
    IN  IF Len(parts) = 2
        THEN << http \o parts[1] \o << ":" >> \o parts[2] >>
        ELSE IF Len(parts) = 4
             THEN << http \o parts[3] \o << ":" >> \o parts[4] \o << "@" >>
                       \o parts[1] \o << ":" >> \o parts[2] >>
             ELSE << >>

\* pool entries: ip:port, ip:port:username:password, and a malformed one
pA   == << "a", ":", "1" >>
pB   == << "b", ":", "2", ":", "u", ":", "p" >>
pC   == << "c", ":", "3" >>
pBad == << "d" >>

\* an entry whose host is the port of pA
pNum == << "1", ":", "9" >>

\* the pools a ProxyManager is constructed with (PROXIES)
Pools == { << >>, << pA >>, << pA, pB >>, << pA, pB, pC >>, << pA, pBad, pC >>,
           << pA, pNum >> }

\* the proxy URLs that get_next_proxy can return
ProxyUrls == { format_proxy_url(e)[1] : e \in { pA, pB, pC, pNum } }

\* PROXY_ROTATION_LIMIT, 50 in src/config/settings.py:24
rotation_limit == 2

\* the calls made to one ProxyManager
MaxProxyCalls == 6

\* ProxyManager.__init__: lines 28-33
InitProxyManager(pool) ==
    /\ proxies = pool
    /\ current_index = 0
    /\ rotation_count = 0
    /\ failed_proxies = {}
    /\ working_proxies = << >>
    /\ phist = [calls |-> 0, op |-> "none", arg |-> << >>, last |-> << >>,
                returned |-> {}, marked |-> {}, grant |-> << >>, streak |-> 0]

\* working_proxies is a dict: its items in insertion order
InWorking(url, working) == \E i \in 1..Len(working) : working[i].url = url

\* working_proxies[url] = working_proxies.get(url, 0) + 1: line 50
CountSuccess(url, working) ==
    IF InWorking(url, working)
    THEN [i \in 1..Len(working) |->
            IF working[i].url = url
            THEN [url |-> url, count |-> working[i].count + 1]
            ELSE working[i]]
    ELSE Append(working, [url |-> url, count |-> 1])

\* del working_proxies[url]: line 150
RECURSIVE DelWorking(_, _)
DelWorking(url, working) ==
    IF working = << >> THEN << >>
    ELSE IF Head(working).url = url THEN Tail(working)
    ELSE << Head(working) >> \o DelWorking(url, Tail(working))

\* sorted(working_proxies.items(), key=count, reverse=True)[0][0]: lines 104-106
\* (the sort is stable: the first of the entries with the highest count)
BestWorking(working) ==
    LET i == CHOOSE k \in 1..Len(working) :
                 /\ \A j \in 1..Len(working) : working[j].count <= working[k].count
                 /\ \A j \in 1..(k - 1) : working[j].count < working[k].count
    IN  working[i].url

\* the loop of lines 112-137 from current_index idx: what it returns and the
\* state it leaves; ok holds the positions whose check_proxy succeeds
RECURSIVE ScanProxies(_, _, _, _, _, _)
ScanProxies(idx, attempts, failed, working, session, ok) ==
    IF attempts >= Len(proxies)
    THEN [ret |-> << >>, idx |-> idx, failed |-> failed, working |-> working]
    ELSE LET proxy_string == proxies[idx + 1]
             next         == (idx + 1) % Len(proxies)
             proxy_url    == format_proxy_url(proxy_string)
         IN  IF proxy_string \in failed
             THEN ScanProxies(next, attempts + 1, failed, working, session, ok)
             ELSE IF proxy_url = << >>
             THEN ScanProxies(next, attempts + 1, failed \cup { proxy_string },
                              working, session, ok)
             ELSE IF session /\ ~InWorking(proxy_url[1], working)
             THEN IF (idx + 1) \in ok
                  THEN [ret |-> proxy_url, idx |-> next, failed |-> failed,
                        working |-> CountSuccess(proxy_url[1], working)]
                  ELSE ScanProxies(next, attempts + 1, failed \cup { proxy_string },
                                   working, session, ok)
             ELSE [ret |-> proxy_url, idx |-> next, failed |-> failed,
                   working |-> working]

\* the fields of the ProxyManager that its calls change
ProxyState ==
    [current_index |-> current_index, rotation_count |-> rotation_count,
     failed_proxies |-> failed_proxies, working_proxies |-> working_proxies]

SetProxyState(ps) ==
    /\ current_index' = ps.current_index
    /\ rotation_count' = ps.rotation_count
    /\ failed_proxies' = ps.failed_proxies
    /\ working_proxies' = ps.working_proxies

\* get_next_proxy(session) called in state ps: lines 82-137, what it returns
\* and the state it leaves; best is random.random() < 0.8
get_next_proxy(ps, session, ok, best) ==
    IF Len(proxies) = 0 \/ Cardinality(ps.failed_proxies) >= Len(proxies)
    THEN [ret |-> << >>, ps |-> ps]
    ELSE LET rotated == ps.rotation_count + 1 >= rotation_limit
             idx     == IF rotated THEN (ps.current_index + 1) % Len(proxies)
                                   ELSE ps.current_index
             count   == IF rotated THEN 0 ELSE ps.rotation_count + 1
             scan    == ScanProxies(idx, 0, ps.failed_proxies, ps.working_proxies,
                                    session, ok)
         IN  IF ps.working_proxies # << >> /\ best
             THEN [ret |-> << BestWorking(ps.working_proxies) >>,
                   ps  |-> [ps EXCEPT !.current_index = idx,
                                      !.rotation_count = count]]
             ELSE [ret |-> scan.ret,
                   ps  |-> [current_index |-> scan.idx, rotation_count |-> count,
                            failed_proxies |-> scan.failed,
                            working_proxies |-> scan.working]]

\* the call of get_next_proxy(session) by a user of the ProxyManager
GetNextProxy(session, ok, best) ==
    /\ phist.calls < MaxProxyCalls
    /\ LET r == get_next_proxy(ProxyState, session, ok, best)
       IN  /\ SetProxyState(r.ps)
           /\ phist' = [phist EXCEPT
                          !.calls = @ + 1, !.op = "next", !.arg = << >>,
                          !.last = r.ret,
                          !.returned = @ \cup { r.ret[i] : i \in DOMAIN r.ret },
                          !.grant = IF r.ret = << >> THEN @ ELSE r.ret,
                          !.streak = IF r.ret = << >> THEN @
                                     ELSE IF r.ret = phist.grant THEN @ + 1 ELSE 1]
    /\ UNCHANGED proxies
    /\ UNCHANGED << rateVars, concurrency, max_pages, caller, probe, crawlVars >>

\* the pool entries whose host the proxy URL ends with: line 147
MatchingEntries(proxy_url) ==
    { i \in 1..Len(proxies) : EndsWith(proxy_url, SplitColon(proxies[i])[1]) }

\* mark_proxy_failed(proxy_url) called in state ps: lines 146-151
mark_proxy_failed(ps, proxy_url) ==
    IF MatchingEntries(proxy_url) # {}
    THEN LET i == CHOOSE k \in MatchingEntries(proxy_url) :
                      \A j \in MatchingEntries(proxy_url) : k <= j
         IN  [ps EXCEPT !.failed_proxies = @ \cup { proxies[i] },
                        !.working_proxies = DelWorking(proxy_url, @)]
    ELSE ps

\* the call of mark_proxy_failed(proxy_url) by a user of the ProxyManager
MarkProxyFailed(proxy_url) ==
    /\ phist.calls < MaxProxyCalls
    /\ proxy_url \in phist.returned
    /\ SetProxyState(mark_proxy_failed(ProxyState, proxy_url))
    /\ phist' = [phist EXCEPT !.calls = @ + 1, !.op = "mark", !.arg = << proxy_url >>,
                              !.marked = @ \cup { proxy_url }]
    /\ UNCHANGED proxies
    /\ UNCHANGED << rateVars, concurrency, max_pages, caller, probe, crawlVars >>

(* ------------------------------------------------------------------ *)
(* WebCrawler.process_url and fetch_url (src/crawler/crawler.py:228-429)*)
(* ------------------------------------------------------------------ *)

\* an iteration whose end takes the worker out of its loop
FinishLeavesLoop(w) ==
    /\ semaphore' = semaphore + 1
    /\ pc' = [pc EXCEPT ![w] = "exit"]
    /\ wurl' = [wurl EXCEPT ![w] = base_url]
    /\ wdepth' = [wdepth EXCEPT ![w] = 0]
    /\ wattempt' = [wattempt EXCEPT ![w] = 0]
    /\ wlinks' = [wlinks EXCEPT ![w] = << >>]

\* the worker's iteration is over: the process_url task is done, lines 220-224,
\* the gate's permit is returned; the locals of the iteration are dead
Finish(w) ==
    /\ semaphore' = semaphore + 1
    /\ pc' = [pc EXCEPT ![w] = "loop"]
    /\ wurl' = [wurl EXCEPT ![w] = base_url]
    /\ wdepth' = [wdepth EXCEPT ![w] = 0]
    /\ wattempt' = [wattempt EXCEPT ![w] = 0]
    /\ wlinks' = [wlinks EXCEPT ![w] = << >>]

\* a failed fetch that is not counted
CountFailedNot(st) == st

\* lines 246-248: fetch_url returned None
CountFailed(st) == [st EXCEPT !.failed = @ + 1]

\* lines 258-259: fetch_url returned an outcome
CountSuccessful(st) == [st EXCEPT !.successful = @ + 1]

\* the statuses the site answers with
Statuses == { 200, 204, 302, 308, 403, 404, 429, 500, 503 }

\* line 351
RedirectStatuses == { 301, 302, 303, 307, 308 }

\* line 364
BlockedStatuses == { 403, 429 }

\* a status test that takes every error for a server error
ServerErrorAny(status) == TRUE

\* line 382
ServerError(status) == status >= 500

\* an attempt that always is the last one
LastAttemptAlways(attempt) == TRUE

\* attempt is the last value of range(retries): line 318
LastAttempt(attempt) == attempt + 1 >= MAX_RETRIES

\* the positions of the pool whose check_proxy may succeed
OkSets == SUBSET (1..Len(proxies))

\* the record of an attempt of the observed fetch_url call: the status it got
\* (0 is an exception), the proxy it used, whether a backoff sleep followed
\* and what fetch_url returned, "pending" while it goes on, with the
\* status_code of the dict it returned (lines 342, 390 and 418)
Observe(w, status, retryable, slept, outcome) ==
    IF ftrace.on
    THEN [ftrace EXCEPT !.attempts = @ + 1, !.status = status, !.used = wproxy[w],
                        !.only_retryable = @ /\ retryable,
                        !.sleeps = @ + (IF slept THEN 1 ELSE 0),
                        !.outcome = outcome,
                        !.code = IF outcome \in { "page", "error" }
                                 THEN << status >> ELSE << >>]
    ELSE ftrace

\* fetch_url is over, its proxy is dead
Returned(w, status, retryable, slept, outcome) ==
    /\ ftrace' = Observe(w, status, retryable, slept, outcome)
    /\ wproxy' = [wproxy EXCEPT ![w] = << >>]

\* lines 367-369 and 405-407: the proxy of the attempt is marked failed and
\* the next one is asked for
RotateProxy(w, ok, best) ==
    IF wproxy[w] # << >>
    THEN get_next_proxy(mark_proxy_failed(ProxyState, wproxy[w][1]), TRUE, ok, best)
    ELSE [ret |-> wproxy[w], ps |-> ProxyState]

\* the task starts: lines 237-244 and 311-328, up to the first request; a
\* crawler without use_proxies has no ProxyManager, which is the empty pool
ProcessStart(w) ==
    /\ pc[w] = "task"
    /\ visited_urls' = MarkVisitedUrls(wurl[w], visited_urls)
    /\ visited_hashes' = MarkVisitedHashes(wurl[w], visited_hashes)
    /\ wattempt' = [wattempt EXCEPT ![w] = 0]
    /\ pc' = [pc EXCEPT ![w] = "fetch"]
    /\ hist' = [hist EXCEPT !.started = @ + 1]
    /\ \E ok \in OkSets, best \in BOOLEAN :
         LET r == get_next_proxy(ProxyState, TRUE, ok, best)
         IN  /\ wproxy' = [wproxy EXCEPT ![w] = r.ret]
             /\ SetProxyState(r.ps)
    /\ UNCHANGED << url_queue, crawled_count, stats, is_running, is_paused,
                    current_session_id, semaphore, rl_locked, rl_last_set, spc,
                    closing, ppc, rpc, wurl, wdepth, wlinks, db_sessions, db_links >>
    /\ UNCHANGED << ftrace, proxies, phist >>
    /\ UNCHANGED << rateVars, concurrency, max_pages, caller, probe >>

\* the elapsed time of a request in milliseconds, between the two thresholds
\* of adaptive_wait
ResponseTime == 3000

\* urlparse(url).netloc as a key of the rate limiter's dicts
DomainOf(url) == IF url.netloc = base_domain THEN "ex" ELSE "other"

\* the rate limiter's state but the limits, which adaptive_wait sets
rateVarsButLimits == << now, last_request_time, semaphores, apc, adomain, amin_wait,
                        awake, rhist >>

\* an outcome was returned to process_url: lines 251-269, the adaptive_wait
\* call of line 266 included, up to the await of save_page
GotOutcome(w, links, status_code) ==
    /\ crawled_count' = crawled_count + 1
    /\ stats' = CountSuccessful(stats)
    /\ domain_specific_limits' =
          AdaptedLimits(domain_specific_limits, DomainOf(wurl[w]), ResponseTime,
                        status_code)
    /\ UNCHANGED rateVarsButLimits
    /\ wlinks' = [wlinks EXCEPT ![w] = links]
    /\ pc' = [pc EXCEPT ![w] = "save_page"]
    /\ UNCHANGED << url_queue, visited_urls, visited_hashes, is_running, is_paused,
                    current_session_id, semaphore, rl_locked, rl_last_set, spc,
                    closing, ppc, rpc, wurl, wdepth, wattempt, db_sessions, db_links,
                    hist >>

\* status 200: lines 332-349
Resp200(w) ==
    /\ pc[w] = "fetch"
    /\ GotOutcome(w, PageLinks(wurl[w]), 200)
    /\ Returned(w, 200, FALSE, FALSE, "page")
    /\ UNCHANGED << proxyVars, concurrency, max_pages, caller, probe >>

\* a redirect status: lines 351-362, then 246-248
RespRedirect(w) ==
    /\ pc[w] = "fetch"
    /\ \E loc \in Locations :
         LET acc == RedirectAccepted(loc, visited_urls, visited_hashes)
         IN  /\ url_queue' = PutAll(url_queue, acc, RedirectDepth(wdepth[w]))
             /\ hist' = [hist EXCEPT !.redirect_enq = @ \/ (acc # << >> /\ wdepth[w] > 0)]
    /\ stats' = CountFailed(stats)
    /\ Finish(w)
    /\ \E status \in Statuses \cap RedirectStatuses :
         Returned(w, status, FALSE, FALSE, "none")
    /\ UNCHANGED << visited_urls, visited_hashes, crawled_count, is_running,
                    is_paused, current_session_id, rl_locked, rl_last_set, spc,
                    closing, ppc, rpc, db_sessions, db_links >>
    /\ UNCHANGED << rateVars, proxyVars, concurrency, max_pages, caller, probe >>

\* 403, 429 or a status >= 500: lines 364-386, the backoff sleep included;
\* after the last attempt the loop ends and fetch_url returns None, lines
\* 428-429 and 246-248
RespRetryable(w) ==
    /\ pc[w] = "fetch"
    /\ \E status \in Statuses, ok \in OkSets, best \in BOOLEAN :
         /\ status # 200
         /\ status \notin RedirectStatuses
         /\ status \in BlockedStatuses \/ ServerError(status)
         /\ LET r == IF status \in BlockedStatuses
                     THEN RotateProxy(w, ok, best)
                     ELSE [ret |-> wproxy[w], ps |-> ProxyState]
            IN  /\ SetProxyState(r.ps)
                /\ IF ~LastAttempt(wattempt[w])
                   THEN /\ wattempt' = [wattempt EXCEPT ![w] = @ + 1]
                        /\ wproxy' = [wproxy EXCEPT ![w] = r.ret]
                        /\ ftrace' = Observe(w, status, TRUE, TRUE, "pending")
                        /\ UNCHANGED << stats, semaphore, pc, wurl, wdepth, wlinks >>
                   ELSE /\ stats' = CountFailed(stats)
                        /\ Finish(w)
                        /\ Returned(w, status, TRUE, TRUE, "none")
    /\ UNCHANGED << url_queue, visited_urls, visited_hashes, crawled_count,
                    is_running, is_paused, current_session_id, rl_locked, rl_last_set,
                    spc, closing, ppc, rpc, db_sessions, db_links, hist >>
    /\ UNCHANGED << proxies, phist >>
    /\ UNCHANGED << rateVars, concurrency, max_pages, caller, probe >>

\* another status below 500: lines 378-398, an error outcome
RespClientError(w) ==
    /\ pc[w] = "fetch"
    /\ \E status \in Statuses :
         /\ status # 200
         /\ status \notin RedirectStatuses
         /\ status \notin BlockedStatuses
         /\ ~ServerError(status)
         /\ GotOutcome(w, << >>, status)
         /\ Returned(w, status, FALSE, FALSE, "error")
    /\ UNCHANGED << proxyVars, concurrency, max_pages, caller, probe >>

ExceptionFallsThrough(attempt) == "none"

\* what the handler of line 400 makes of the exception of an attempt: the
\* loop goes on after the sleep of lines 410-414, or the dict of lines
\* 416-426 is returned
ExceptionOutcome(attempt) ==
    IF LastAttempt(attempt) THEN "error" ELSE "pending"

\* the request raised: lines 400-426, a retry after the backoff sleep, or an
\* error outcome on the last attempt
RespException(w) ==
    /\ pc[w] = "fetch"
    /\ \E ok \in OkSets, best \in BOOLEAN :
         LET r == RotateProxy(w, ok, best)
         IN  /\ SetProxyState(r.ps)
             /\ IF ExceptionOutcome(wattempt[w]) = "pending"
                THEN /\ wattempt' = [wattempt EXCEPT ![w] = @ + 1]
                     /\ wproxy' = [wproxy EXCEPT ![w] = r.ret]
                     /\ ftrace' = Observe(w, 0, FALSE, TRUE, "pending")
                     /\ UNCHANGED << url_queue, visited_urls, visited_hashes, crawled_count,
                            stats, is_running, is_paused, current_session_id,
                            semaphore, rl_locked, rl_last_set, spc, closing, ppc, rpc,
                            pc, wurl, wdepth, wlinks, db_sessions, db_links, hist >>
                     /\ UNCHANGED rateVars
                ELSE /\ GotOutcome(w, << >>, 0)
                     /\ Returned(w, 0, FALSE, FALSE, ExceptionOutcome(wattempt[w]))
    /\ UNCHANGED << proxies, phist >>
    /\ UNCHANGED << concurrency, max_pages, caller, probe >>

\* save_page returned an id (ok), or returned None or raised (~ok): lines
\* 269-287, up to the await of save_links
SavePageDone(w) ==
    /\ pc[w] = "save_page"
    /\ \E ok \in BOOLEAN :
         IF ok /\ wlinks[w] # << >>
         THEN /\ pc' = [pc EXCEPT ![w] = "save_links"]
              /\ UNCHANGED << semaphore, wurl, wdepth, wattempt, wlinks >>
         ELSE Finish(w)
    /\ UNCHANGED << url_queue, visited_urls, visited_hashes, crawled_count, stats,
                    is_running, is_paused, current_session_id, rl_locked, rl_last_set,
                    spc, closing, ppc, rpc, db_sessions, db_links, hist >>
    /\ UNCHANGED << fetchVars, rateVars, proxyVars, concurrency, max_pages, caller, probe >>

\* save_links returned, the rows are stored: lines 287-296
SaveLinksDone(w) ==
    /\ pc[w] = "save_links"
    /\ db_links' = db_links \o wlinks[w]
    /\ LET acc == LinksAccepted(wlinks[w], visited_urls, visited_hashes)
       IN  /\ url_queue' = PutAll(url_queue, acc, LinkDepth(wdepth[w]))
           /\ hist' = [hist EXCEPT !.link_enq = @ \/ (acc # << >> /\ wdepth[w] > 0)]
    /\ Finish(w)
    /\ UNCHANGED << visited_urls, visited_hashes, crawled_count, stats, is_running,
                    is_paused, current_session_id, rl_locked, rl_last_set, spc,
                    closing, ppc, rpc, db_sessions >>
    /\ UNCHANGED << fetchVars, rateVars, proxyVars, concurrency, max_pages, caller, probe >>

(* ------------------------------------------------------------------ *)
(* The crawl                                                           *)
(* ------------------------------------------------------------------ *)

Init ==
    /\ InitCrawler
    /\ probe = NoProbe
    /\ InitRateLimiter
    /\ InitProxyManager(<< >>)

Next ==
    \/ StartRejected
    \/ StartCall
    \/ \E s \in Starts : InitDbDone(s)
    \/ \E s \in Starts : StartupRaised(s)
    \/ \E s \in Starts : OpenSessionDone(s)
    \/ \E s \in Starts : SitemapDone(s)
    \/ \E s \in Starts : StartFinally(s)
    \/ \E s \in Starts : StartClosed(s)
    \/ PauseNoop
    \/ PauseCall
    \/ PauseDone
    \/ ResumeNoop
    \/ ResumeCall
    \/ ResumeRead
    \/ \E w \in Workers : WorkerLoop(w)
    \/ \E w \in Workers : WorkerGet(w)
    \/ \E w \in Workers : WorkerTimeout(w)
    \/ \E w \in Workers : GateAcquired(w)
    \/ \E w \in Workers : RateAcquired(w)
    \/ \E w \in Workers : RateSlept(w)
    \/ \E w \in Workers : ProcessStart(w)
    \/ \E w \in Workers : Resp200(w)
    \/ \E w \in Workers : RespRedirect(w)
    \/ \E w \in Workers : RespRetryable(w)
    \/ \E w \in Workers : RespClientError(w)
    \/ \E w \in Workers : RespException(w)
    \/ \E w \in Workers : SavePageDone(w)
    \/ \E w \in Workers : SaveLinksDone(w)

Spec == Init /\ [][Next]_vars


(* ------------------------------------------------------------------ *)
(* The URLManager alone (src/crawler/url_manager.py)                   *)
(* ------------------------------------------------------------------ *)

\* the longest path handed to the URLManager
MaxPathLen == 4

\* the paths: '/' followed by up to MaxPathLen - 1 characters of '/', '.', 'a'
RECURSIVE PathsOfLen(_)
PathsOfLen(n) ==
    IF n = 1 THEN { << "/" >> }
    ELSE { Append(p, c) : p \in PathsOfLen(n - 1), c \in { "/", ".", "a" } }

ProbePaths == UNION { PathsOfLen(n) : n \in 1..MaxPathLen }

ProbeSchemes == { sHttp, sHttps, << "H", "T", "T", "P" >> }

ProbeNetlocs ==
    { << "e", "x" >>, << "E", "x" >>, << "e", "x", ":", "8", "0" >>,
      << "e", "x", ":", "4", "4", "3" >>, << "e", "x", ":", "x" >> }

ProbeQueries == { << >>, << << "page", "2" >>, << "foo", "1" >>, << "id", "7" >> >> }

ProbeURLs ==
    { Url(sc, n, p, q, "") :
        sc \in ProbeSchemes, n \in ProbeNetlocs, p \in ProbePaths, q \in ProbeQueries }

\* a caller holds a fresh URLManager and a URL
InitUrl ==
    /\ InitCrawler
    /\ concurrency = MaxConcurrency
    /\ max_pages = << 2 >>
    /\ \E u \in ProbeURLs :
         probe = [phase |-> 0, url |-> u, once |-> u, twice |-> u]
    /\ InitRateLimiter
    /\ InitProxyManager(<< >>)

\* normalize_url(url)
ProbeNormalize ==
    /\ probe.phase = 0
    /\ probe' = [probe EXCEPT !.phase = 1, !.once = normalize_url(probe.url)]
    /\ UNCHANGED << rateVars, proxyVars, concurrency, max_pages, caller, crawlVars >>

\* normalize_url of the result
ProbeRenormalize ==
    /\ probe.phase = 1
    /\ probe' = [probe EXCEPT !.phase = 2, !.twice = normalize_url(probe.once)]
    /\ UNCHANGED << rateVars, proxyVars, concurrency, max_pages, caller, crawlVars >>

\* mark_as_visited(url)
ProbeMark ==
    /\ probe.phase = 2
    /\ probe' = [probe EXCEPT !.phase = 3]
    /\ visited_urls' = MarkVisitedUrls(probe.url, visited_urls)
    /\ visited_hashes' = MarkVisitedHashes(probe.url, visited_hashes)
    /\ UNCHANGED << fetchVars, rateVars, proxyVars, concurrency, max_pages, caller, url_queue, crawled_count, stats,
                    is_running, is_paused, current_session_id, semaphore, rl_locked,
                    rl_last_set, spc, closing, ppc, rpc, pc, wurl, wdepth, wattempt,
                    wlinks, db_sessions, db_links, hist >>

\* mark_as_visited of another URL, later
ProbeMarkOther(u) ==
    /\ probe.phase = 3
    /\ visited_urls' = MarkVisitedUrls(u, visited_urls)
    /\ visited_hashes' = MarkVisitedHashes(u, visited_hashes)
    /\ UNCHANGED << fetchVars, rateVars, proxyVars, concurrency, max_pages, caller, probe, url_queue, crawled_count,
                    stats, is_running, is_paused, current_session_id, semaphore,
                    rl_locked, rl_last_set, spc, closing, ppc, rpc, pc, wurl, wdepth,
                    wattempt, wlinks, db_sessions, db_links, hist >>

NextUrl ==
    \/ ProbeNormalize
    \/ ProbeRenormalize
    \/ ProbeMark
    \/ \E u \in { uC } : ProbeMarkOther(u)

SpecUrl == InitUrl /\ [][NextUrl]_vars

(* ------------------------------------------------------------------ *)
(* The RateLimiter and the ProxyManager alone                          *)
(* ------------------------------------------------------------------ *)

\* an orchestrator that is never started
InitIdleCrawler ==
    /\ InitCrawler
    /\ concurrency = MaxConcurrency
    /\ max_pages = << 2 >>
    /\ probe = NoProbe

\* calls of wait() in progress together, adaptive_wait calls between their
\* steps, and time passing
InitRate ==
    /\ InitIdleCrawler
    /\ InitRateLimiter
    /\ InitProxyManager(<< >>)

NextRate ==
    \/ \E c \in Acquirers : WaitCall(c, UrlDomain(c))
    \/ \E c \in Acquirers : GateEnter(c)
    \/ \E c \in Acquirers : SleepDone(c)
    \/ Tick
    \/ \E d \in Domains, rt \in PacedResponseTimes, sc \in PacedStatusCodes :
          AdaptiveWait(d, rt, sc, MaxPacedReports)

SpecRate == InitRate /\ [][NextRate]_vars

\* adaptive_wait calls alone
NextLimit ==
    \E d \in Domains, rt \in ResponseTimes, sc \in StatusCodes :
       AdaptiveWait(d, rt, sc, MaxReports)

SpecLimit == InitRate /\ [][NextLimit]_vars

\* calls of get_next_proxy and mark_proxy_failed on one ProxyManager
InitProxy ==
    /\ InitIdleCrawler
    /\ InitRateLimiter
    /\ \E pool \in Pools : InitProxyManager(pool)

NextProxy ==
    \/ \E session \in BOOLEAN, ok \in SUBSET (1..3), best \in BOOLEAN :
          GetNextProxy(session, ok, best)
    \/ \E p \in ProxyUrls : MarkProxyFailed(p)

SpecProxy == InitProxy /\ [][NextProxy]_vars

(* ------------------------------------------------------------------ *)
(* The query filter of normalize_url (src/crawler/url_manager.py:64-71) *)
(* ------------------------------------------------------------------ *)

\* the longest query handed to normalize_url
MaxQueryLen == 3

QueryKeys == { "id", "page", "foo" }

\* the values of the parameters, the blank one among them
QueryValues == { "", "1", "2", "3" }

RECURSIVE QueriesOfLen(_)
QueriesOfLen(n) ==
    IF n = 0 THEN { << >> }
    ELSE { Append(q, << k, v >>) :
             q \in QueriesOfLen(n - 1), k \in QueryKeys, v \in QueryValues }

QueryStrings == UNION { QueriesOfLen(n) : n \in 0..MaxQueryLen }

\* the allow-lists a URLManager is made with
AllowLists == { {}, { "id" }, { "foo", "page" }, IMPORTANT_URL_PARAMS }

\* a caller holds a URLManager made with an allow-list, and a URL
InitQuery ==
    /\ InitCrawler
    /\ concurrency = MaxConcurrency
    /\ max_pages = << 2 >>
    /\ \E q \in QueryStrings, allow \in AllowLists :
         LET u == Url(sHttp, << "x" >>, << "/", "y" >>, q, "")
         IN  probe = [phase |-> 0, url |-> u, once |-> u, twice |-> u,
                      allow |-> allow]
    /\ InitRateLimiter
    /\ InitProxyManager(<< >>)

\* normalize_url(url) of that URLManager
ProbeFilter ==
    /\ probe.phase = 0
    /\ probe' = [probe EXCEPT
                   !.phase = 1,
                   !.once = NormalizeWith(probe.url, ImportantParams(probe.allow))]
    /\ UNCHANGED << rateVars, proxyVars, concurrency, max_pages, caller, crawlVars >>

NextQuery == ProbeFilter

SpecQuery == InitQuery /\ [][NextQuery]_vars

(* ------------------------------------------------------------------ *)
(* should_crawl and the extensions (src/crawler/url_manager.py:122-193) *)
(* ------------------------------------------------------------------ *)

\* the longest path handed to should_crawl
MaxAssetPathLen == 5

\* the paths: '/' followed by up to MaxAssetPathLen - 1 characters
RECURSIVE AssetPathsOfLen(_)
AssetPathsOfLen(n) ==
    IF n = 1 THEN { << "/" >> }
    ELSE { Append(p, c) : p \in AssetPathsOfLen(n - 1), c \in { "/", ".", "j", "s", "J" } }

AssetPaths == UNION { AssetPathsOfLen(n) : n \in 1..MaxAssetPathLen }

AssetURLs ==
    { Url(sHttp, n, p, << >>, "") :
        n \in { << "e", "x" >>, << "o", "t", "h", "e", "r" >> }, p \in AssetPaths }

\* the URLs that were fetched before
FetchedBefore ==
    { Url(sHttp, << "e", "x" >>, << "/", "j" >>, << >>, ""),
      Url(sHttp, << "e", "x" >>, << "/", "j", ".", "j", "s" >>, << >>, "") }

\* a caller holds a fresh URLManager and a URL
InitAdmit ==
    /\ InitCrawler
    /\ concurrency = MaxConcurrency
    /\ max_pages = << 2 >>
    /\ \E u \in AssetURLs :
         probe = [phase |-> 0, url |-> u, once |-> u, twice |-> u, admit |-> FALSE]
    /\ InitRateLimiter
    /\ InitProxyManager(<< >>)

\* mark_as_visited(v), before the question is asked
ProbeVisit(v) ==
    /\ probe.phase = 0
    /\ normalize_url(v) \notin visited_urls
    /\ visited_urls' = MarkVisitedUrls(v, visited_urls)
    /\ visited_hashes' = MarkVisitedHashes(v, visited_hashes)
    /\ UNCHANGED << fetchVars, rateVars, proxyVars, concurrency, max_pages, caller, probe,
                    url_queue, crawled_count, stats, is_running, is_paused,
                    current_session_id, semaphore, rl_locked, rl_last_set, spc,
                    closing, ppc, rpc, pc, wurl, wdepth, wattempt, wlinks,
                    db_sessions, db_links, hist >>

\* should_crawl(url)
ProbeAdmit ==
    /\ probe.phase = 0
    /\ probe' = [probe EXCEPT
                   !.phase = 1,
                   !.admit = should_crawl(probe.url, visited_urls, visited_hashes)]
    /\ UNCHANGED << rateVars, proxyVars, concurrency, max_pages, caller, crawlVars >>

NextAdmit ==
    \/ \E v \in FetchedBefore : ProbeVisit(v)
    \/ ProbeAdmit

SpecAdmit == InitAdmit /\ [][NextAdmit]_vars

(* ------------------------------------------------------------------ *)
(* should_crawl on two spellings of a URL                              *)
(* ------------------------------------------------------------------ *)

PairNetlocs ==
    { << "e", "x" >>, << "E", "X" >>, << "e", "x", ":", "8", "0" >>,
      << "o", "t", "h", "e", "r" >> }

PairPaths == { << "/" >>, << "/", "j" >>, << "/", "j", "/" >>, << "/", "j", ".", "j", "s" >> }

PairURLs ==
    { Url(sc, n, p, << >>, "") :
        sc \in { sHttp, << "H", "T", "T", "P" >> }, n \in PairNetlocs, p \in PairPaths }

\* a caller holds a fresh URLManager and two URLs
InitPair ==
    /\ InitCrawler
    /\ concurrency = MaxConcurrency
    /\ max_pages = << 2 >>
    /\ \E u \in PairURLs, v \in PairURLs :
         probe = [phase |-> 0, url |-> u, other |-> v,
                  admit |-> FALSE, admit_other |-> FALSE]
    /\ InitRateLimiter
    /\ InitProxyManager(<< >>)

\* should_crawl(url)
ProbeAdmitFirst ==
    /\ probe.phase = 0
    /\ probe' = [probe EXCEPT
                   !.phase = 1,
                   !.admit = should_crawl(probe.url, visited_urls, visited_hashes)]
    /\ UNCHANGED << rateVars, proxyVars, concurrency, max_pages, caller, crawlVars >>

\* should_crawl(other), on the same visited sets
ProbeAdmitOther ==
    /\ probe.phase = 1
    /\ probe' = [probe EXCEPT
                   !.phase = 2,
                   !.admit_other = should_crawl(probe.other, visited_urls, visited_hashes)]
    /\ UNCHANGED << rateVars, proxyVars, concurrency, max_pages, caller, crawlVars >>

NextPair ==
    \/ \E v \in FetchedBefore : ProbeVisit(v)
    \/ ProbeAdmitFirst
    \/ ProbeAdmitOther

SpecPair == InitPair /\ [][NextPair]_vars

(* ------------------------------------------------------------------ *)
(* One crawl to its end, under fair scheduling                         *)
(* ------------------------------------------------------------------ *)

\* start() is called once on a crawler without max_pages, nobody pauses
LiveScenario ==
    [concurrency |-> MaxConcurrency, max_pages |-> << >>,
     starts |-> 1, resumes |-> 0, pause_after |-> NeverPause,
     noop_pauses |-> 0, noop_resumes |-> 0]

InitLive ==
    /\ InitScenario(LiveScenario)
    /\ probe = NoProbe
    /\ InitRateLimiter
    /\ InitProxyManager(<< >>)

\* the workers of the one start()
LiveWorkers == { w \in Workers : w[1] = 1 }

\* the finally block after gather returned: lines 156-165
StartFinallyAfterGather(s) == spc[s] = "workers" /\ StartFinally(s)

\* the steps of start(); nothing in it raises
StartStep ==
    \/ StartCall
    \/ \E s \in Starts : InitDbDone(s)
    \/ \E s \in Starts : OpenSessionDone(s)
    \/ \E s \in Starts : SitemapDone(s)
    \/ \E s \in Starts : StartFinallyAfterGather(s)
    \/ \E s \in Starts : StartClosed(s)

\* the steps of the coroutine of worker w; the gate has a permit for each
\* worker of one start(), so none waits for it
WorkerStep(w) ==
    \/ WorkerLoop(w)
    \/ WorkerGet(w)
    \/ WorkerTimeout(w)
    \/ RateAcquired(w)
    \/ RateSlept(w)
    \/ ProcessStart(w)
    \/ Resp200(w)
    \/ RespRedirect(w)
    \/ RespRetryable(w)
    \/ RespClientError(w)
    \/ RespException(w)
    \/ SavePageDone(w)
    \/ SaveLinksDone(w)

NextLive ==
    \/ StartStep
    \/ \E w \in LiveWorkers : WorkerStep(w)

\* the event loop runs every coroutine that is ready: each request is
\* answered, each sleep and each timeout of queue.get() ends
SpecLive ==
    /\ InitLive
    /\ [][NextLive]_vars
    /\ WF_vars(StartStep)
    /\ \A w \in LiveWorkers : WF_vars(WorkerStep(w))

(* ------------------------------------------------------------------ *)
(* fetch_sitemap (src/crawler/crawler.py:478-634)                      *)
(* ------------------------------------------------------------------ *)

\* the sitemap documents of a site: "s" is /sitemap.xml
SitemapIds == { "s", "t" }

\* the <sitemap><loc> entries of a document
SubLists == { << >>, << "s" >>, << "t" >>, << "t", "t" >>, << "s", "t" >> }

\* a document: the status it is served with, its sub-sitemaps and its
\* <url><loc> entries
SitemapDocs == [status : { 200, 404 }, subs : SubLists, urls : { << >>, << uA1 >> }]

Sites == [SitemapIds -> SitemapDocs]

\* the calls of _parse_sitemap_content that the walk is followed into
MaxSitemapNesting == 4

\* a call of _parse_sitemap_content on document d: next is the position of
\* the loop of lines 552-556, urls the list of line 537
Frame(d) == [doc |-> d, next |-> 1, urls |-> << >>]

\* start() is inside fetch_sitemap, line 146
InitSitemap ==
    /\ InitCrawler
    /\ concurrency = MaxConcurrency
    /\ max_pages = << 2 >>
    /\ \E site \in Sites :
         probe = [phase |-> "fetch", site |-> site, stack |-> << >>, urls |-> << >>]
    /\ InitRateLimiter
    /\ InitProxyManager(<< >>)

\* the request of lines 494-516: /sitemap.xml is parsed, or, when it is not
\* served (and none of the alternative locations is), the empty list returned
FetchSitemap ==
    /\ probe.phase = "fetch"
    /\ probe' = IF probe.site["s"].status = 200
                THEN [probe EXCEPT !.phase = "walk", !.stack = << Frame("s") >>]
                ELSE [probe EXCEPT !.phase = "done"]
    /\ UNCHANGED << rateVars, proxyVars, concurrency, max_pages, caller, crawlVars >>

\* line 555: _process_sitemap of the next sub-sitemap; lines 615-630, the
\* document is parsed, or is not served and the call returns the empty list
ProcessSitemap ==
    /\ probe.phase = "walk"
    /\ Len(probe.stack) < MaxSitemapNesting
    /\ LET n    == Len(probe.stack)
           top  == probe.stack[n]
           subs == probe.site[top.doc].subs
       IN  /\ top.next <= Len(subs)
           /\ probe' = IF probe.site[subs[top.next]].status = 200
                       THEN [probe EXCEPT !.stack = Append(@, Frame(subs[top.next]))]
                       ELSE [probe EXCEPT !.stack[n].next = @ + 1]
    /\ UNCHANGED << rateVars, proxyVars, concurrency, max_pages, caller, crawlVars >>

\* lines 558-564: the loop over the sub-sitemaps is over, the document's own
\* URLs are added and the list is returned, to the loop of the calling
\* document (line 556) or out of fetch_sitemap
ParseSitemapReturns ==
    /\ probe.phase = "walk"
    /\ LET n      == Len(probe.stack)
           top    == probe.stack[n]
           result == top.urls \o probe.site[top.doc].urls
       IN  /\ top.next > Len(probe.site[top.doc].subs)
           /\ probe' = IF n = 1
                       THEN [probe EXCEPT !.phase = "done", !.stack = << >>,
                                          !.urls = result]
                       ELSE [probe EXCEPT
                               !.stack = [SubSeq(@, 1, n - 1) EXCEPT
                                            ![n - 1].next = @ + 1,
                                            ![n - 1].urls = @ \o result]]
    /\ UNCHANGED << rateVars, proxyVars, concurrency, max_pages, caller, crawlVars >>

NextSitemap ==
    \/ FetchSitemap
    \/ ProcessSitemap
    \/ ParseSitemapReturns

SpecSitemap == InitSitemap /\ [][NextSitemap]_vars

(* ------------------------------------------------------------------ *)
(* One process_url call (src/crawler/crawler.py:228-429)               *)
(* ------------------------------------------------------------------ *)

\* the worker whose call is observed
FetchWorker == << 1, 1 >>

\* a crawler of concurrency 1 whose worker took the seed from the queue and
\* passed the gate and the rate limiter: process_url(base_url, 0) is about to
\* run, with the pool of proxies the crawler was given
InitFetch ==
    /\ concurrency = 1
    /\ max_pages = << 2 >>
    /\ caller = [starts |-> 0, resumes |-> 0, pause_after |-> NeverPause,
                 noop_pauses |-> 0, noop_resumes |-> 0]
    /\ probe = NoProbe
    /\ url_queue = << >>
    /\ visited_urls = {}
    /\ visited_hashes = {}
    /\ crawled_count = 0
    /\ stats = [successful |-> 0, failed |-> 0]
    /\ is_running = TRUE
    /\ is_paused = FALSE
    /\ current_session_id = StartSessionId(<< >>)
    /\ semaphore = 0
    /\ rl_locked = FALSE
    /\ rl_last_set = TRUE
    /\ spc = [s \in Starts |-> IF s = FetchWorker[1] THEN "workers" ELSE "idle"]
    /\ closing = [s \in Starts |-> [id |-> 0, status |-> "none", raised |-> FALSE]]
    /\ ppc = [at |-> "idle", id |-> 0]
    /\ rpc = "idle"
    /\ pc = [w \in Workers |-> IF w = FetchWorker THEN "task" ELSE "idle"]
    /\ wurl = [w \in Workers |-> base_url]
    /\ wdepth = [w \in Workers |-> 0]
    /\ wattempt = [w \in Workers |-> 0]
    /\ wlinks = [w \in Workers |-> << >>]
    /\ db_sessions = StartSessionDb(<< >>)
    /\ db_links = << >>
    /\ hist = [started |-> 0, dropped_deep |-> FALSE, link_enq |-> FALSE,
               redirect_enq |-> FALSE, paused_visited |-> {}, resumed |-> FALSE]
    /\ wproxy = [w \in Workers |-> << >>]
    /\ ftrace = [NoTrace EXCEPT !.on = TRUE]
    /\ InitRateLimiter
    /\ \E pool \in Pools : InitProxyManager(pool)

NextFetch ==
    \/ ProcessStart(FetchWorker)
    \/ Resp200(FetchWorker)
    \/ RespRedirect(FetchWorker)
    \/ RespRetryable(FetchWorker)
    \/ RespClientError(FetchWorker)
    \/ RespException(FetchWorker)
    \/ SavePageDone(FetchWorker)
    \/ SaveLinksDone(FetchWorker)

SpecFetch == InitFetch /\ [][NextFetch]_vars

(* ------------------------------------------------------------------ *)
(* Properties                                                          *)
(* ------------------------------------------------------------------ *)

\* where a worker is once its item passed the re-check of line 205, until the
\* iteration ends
PastRecheck == { "gate_wait", "rl_wait", "rl_sleep", "task", "fetch", "save_page", "save_links" }

\* where a worker is while its process_url call runs
InProcess == { "fetch", "save_page", "save_links" }

\* the entries a step appends to the queue
NewItems == IF Len(url_queue') > Len(url_queue) THEN Appended(url_queue, url_queue') ELSE {}

\* C1: no two workers are past the admissibility re-check at the same time
\* with URLs of the same normalized form, so no two fetches are issued for one
\* normalized form, whatever the interleaving and the duplicates in the queue.
C1_OneFetchPerNormalizedForm ==
    \A w1 \in Workers : \A w2 \in Workers :
        (w1 # w2 /\ pc[w1] \in PastRecheck /\ pc[w2] \in PastRecheck)
            => normalize_url(wurl[w1]) # normalize_url(wurl[w2])

\* C2: every URL a worker hands to the fetch pipeline has the host of the base
\* URL, whatever is_internal flag was reported for it.
C2_FetchedHostIsBaseHost ==
    \A w \in Workers : pc[w] \in PastRecheck => wurl[w].netloc = base_url.netloc

\* a page reported an external link as internal, its links were stored and
\* enqueued, and a worker fetches a URL that came from a link
C2_Witness ==
    /\ \E i \in 1..Len(db_links) :
         db_links[i].is_internal /\ db_links[i].url.netloc # base_url.netloc
    /\ \E w \in Workers : pc[w] = "fetch" /\ wdepth[w] > 0

\* C3: with max_pages = N, the number of pages fetched (crawled_count) never
\* exceeds N.
C3_FetchedAtMostMaxPages ==
    max_pages # << >> => crawled_count <= max_pages[1]

\* C4: when no process_url call is in progress, successful + failed is the
\* number of process_url calls that were started.
C4_CountersMatchStarted ==
    (\A w \in Workers : pc[w] \notin InProcess)
        => stats.successful + stats.failed = hist.started

\* calls of both kinds have ended, and none is in progress
C4_Witness ==
    /\ \A w \in Workers : pc[w] \notin InProcess
    /\ stats.successful >= 1
    /\ stats.failed >= 1

\* C5: after mark_as_visited(u), should_crawl is false for u and for every u'
\* with the normalized form of u, in every later state of the URLManager (no
\* URL that should_crawl accepts has the normalized form of u).
C5_VisitedNeverAdmissible ==
    probe.phase = 3 =>
        \A u \in ProbeURLs :
            should_crawl(u, visited_urls, visited_hashes)
                => normalize_url(u) # normalize_url(probe.url)

\* a URL of the base host that is not in normalized form was marked, and other
\* URLs were marked after it
C5_Witness ==
    /\ probe.phase = 3
    /\ is_internal_url(probe.url)
    /\ probe.once # probe.url
    /\ Cardinality(visited_urls) > 1

\* C6: normalize_url(normalize_url(u)) = normalize_url(u).
C6_NormalizeIdempotent ==
    probe.phase >= 2 => probe.twice = probe.once

\* C7: no worker is past the depth check with an item deeper than max_depth,
\* and the step that dequeues such an item drops it: the worker is back at the
\* head of its loop, nothing is marked visited and no process_url call starts.
C7_DeepItemsDropped ==
    /\ [](\A w \in Workers :
            (pc[w] \in PastRecheck /\ max_depth # << >>) => wdepth[w] <= max_depth[1])
    /\ [][\A w \in Workers :
            (/\ pc[w] = "get"
             /\ pc'[w] # "get"
             /\ url_queue # << >>
             /\ max_depth # << >>
             /\ Head(url_queue)[2] > max_depth[1])
            => /\ pc'[w] = "loop"
               /\ url_queue' = Tail(url_queue)
               /\ visited_urls' = visited_urls
               /\ visited_hashes' = visited_hashes
               /\ hist'.started = hist.started]_vars

\* an item deeper than max_depth was dequeued
C7_Witness == hist.dropped_deep

\* the steps of start() that seed the queue (the base URL, the sitemap URLs)
Seeding == \E s \in Starts : spc[s] \in { "open_session", "sitemap" } /\ spc'[s] # spc[s]

\* the step of resume() that re-enqueues the stored links
Resuming == rpc = "reading" /\ rpc' = "idle"

\* a step of worker w enqueues links at the depth of its page plus one, or
\* redirect targets at the depth of its URL
DiscoveryDepths(w) ==
    \/ /\ pc[w] = "save_links"
       /\ pc'[w] = "loop"
       /\ \A it \in NewItems : it[2] = wdepth[w] + 1
    \/ /\ pc[w] = "fetch"
       /\ pc'[w] = "loop"
       /\ \A it \in NewItems : it[2] = wdepth[w]

\* C8 as stated: every step that enqueues links or redirect targets (every
\* enqueueing step but the seeding of start()) attaches depth d + 1 to the
\* links of a page dequeued at depth d and depth d to a redirect target.
C8_OnlyDiscoveryDepths ==
    [][(NewItems # {} /\ ~Seeding) => \E w \in Workers : DiscoveryDepths(w)]_vars

\* C8, amended: the same, except that resume() re-enqueues stored links at
\* depth 0.
C8_DiscoveryDepthsOrResume ==
    [][(NewItems # {} /\ ~Seeding) =>
          \/ \E w \in Workers : DiscoveryDepths(w)
          \/ Resuming /\ \A it \in NewItems : it[2] = 0]_vars

\* links of a page below the seed were enqueued, and so was a redirect target
\* of a URL below the seed
C8_Witness == hist.link_enq /\ hist.redirect_enq

\* C9: after a pause and a resume, no process_url call starts for a URL that
\* was visited when pause() was called.
C9_NoRefetchAfterResume ==
    [][\A w \in Workers :
         (pc[w] = "task" /\ pc'[w] = "fetch" /\ hist.resumed)
            => normalize_url(wurl[w]) \notin hist.paused_visited]_vars

\* C10: when a start() invocation exits, by return or by exception, is_running
\* is false and the session it opened is paused or completed.
C10_StartLeavesNotRunning ==
    [][\A s \in Starts :
         (spc[s] \notin { "done", "raised" } /\ spc'[s] \in { "done", "raised" })
            => /\ ~is_running'
               /\ current_session_id # 0
                    => db_sessions'[current_session_id] \in { "paused", "completed" }]_vars

\* C11: a start() call made while the orchestrator is running has no effect:
\* the queue, the statistics, the flags, the session id and the stored
\* sessions are unchanged, and no start() invocation and no worker is added
C11_RejectedStartNoEffect ==
    [][ (caller'.starts # caller.starts /\ is_running) => UNCHANGED crawlVars ]_vars

\* a second start() call was rejected while the first one runs its workers
C11_Witness ==
    /\ concurrency = 1 /\ max_pages = << 1 >>
    /\ caller.starts = 0
    /\ is_running
    /\ spc = [s \in Starts |-> IF s = 1 THEN "workers" ELSE "idle"]

\* a step in which pause() returns: pause_crawl_session returned, or pause()
\* found no session id and did not await
PauseReturns ==
    \/ ppc.at = "db" /\ ppc'.at = "idle"
    \/ ppc.at = "idle" /\ ppc'.at = "idle" /\ ~is_paused /\ is_paused'

\* a step in which a start() invocation exits: end_crawl_session returned, or
\* the finally block found no session id
StartExits(s) ==
    spc[s] \in { "workers", "sitemap", "closing" } /\ spc'[s] \in { "done", "raised" }

C13_RejectedResumeNoEffect ==
    [][ /\ (caller'.noop_resumes # caller.noop_resumes) => UNCHANGED crawlVars
        /\ ((is_running \/ ~is_paused) /\ rpc = "idle") => rpc' = "idle" ]_vars

\* resume() was called on an orchestrator that was never started
C13_Witness ==
    /\ caller.noop_resumes = 0
    /\ caller.starts = 2
    /\ ~is_running /\ ~is_paused
    /\ spc = [s \in Starts |-> "idle"]
    /\ url_queue = << >>

\* the moves of a stored session status that are permitted
StatusMoves ==
    { << "running", "paused" >>, << "running", "completed" >>,
      << "running", "failed" >>, << "paused", "running" >> }

\* C14: the stored status of a session only moves running -> paused,
\* running -> completed or failed, or paused -> running: a completed or failed
\* status never changes again, and sessions are never removed
C14_SessionStatusMoves ==
    [][ /\ Len(db_sessions') >= Len(db_sessions)
        /\ \A i \in DOMAIN db_sessions :
              \/ db_sessions'[i] = db_sessions[i]
              \/ << db_sessions[i], db_sessions'[i] >> \in StatusMoves ]_vars

\* a call of wait() holds the semaphore of its domain
InsideDomainGate(c, d) == apc[c] = "sleeping" /\ adomain[c] = d

\* C15: at most one call of wait() per domain is between taking the domain's
\* semaphore and recording the new last-request time; a call made meanwhile for
\* the same domain queues behind it, and a call never queues behind a call for
\* another domain
C15_DomainMutualExclusion ==
    [][ /\ \A c1, c2 \in Acquirers :
              (c1 # c2 /\ apc'[c1] = "sleeping" /\ apc'[c2] = "sleeping")
                 => adomain'[c1] # adomain'[c2]
        /\ \A c \in Acquirers :
              (apc[c] = "idle" /\ apc'[c] # "idle") =>
                 (apc'[c] = "queued" <=>
                    \E c2 \in Acquirers : InsideDomainGate(c2, adomain'[c])) ]_vars

\* a call for one domain is paced inside the gate, a second call for that
\* domain waits behind it, and a call for the other domain was granted at this
\* moment
C15_Witness ==
    /\ \E c1, c2 \in Acquirers :
         /\ InsideDomainGate(c1, "ex")
         /\ apc[c2] = "queued" /\ adomain[c2] = "ex"
    /\ apc[MaxAcquirers] = "done"
    /\ last_request_time["other"] = << now >>
    /\ last_request_time["ex"] # << now >>

\* C16: when wait() grants a request for a domain that had a request granted
\* before, the time since that grant is at least 1/L, L being the limit of the
\* domain at the moment of the grant; and the delay a call applies once it is
\* inside the gate is max(0, 1/L - (now - last request time)), L being the
\* limit of the domain at that moment
C16_GrantsPacedByCurrentLimit ==
    [][ /\ \A d \in Domains :
              (last_request_time[d] # << >> /\ last_request_time'[d] # last_request_time[d]) =>
                 LET L   == DomainRate(domain_specific_limits', d)
                     gap == last_request_time'[d][1] - last_request_time[d][1]
                 IN  gap * L[1] >= L[2]
        /\ \A c \in Acquirers :
              (apc[c] \in { "idle", "queued" } /\ apc'[c] \in { "sleeping", "done" }) =>
                 LET d       == adomain'[c]
                     L       == DomainRate(domain_specific_limits, d)
                     elapsed == now - LastTime(d)
                 IN  IF elapsed * L[1] >= L[2]
                     THEN apc'[c] = "done"
                     ELSE /\ apc'[c] = "sleeping"
                          /\ awake'[c] = << LastTime(d) * L[1] + L[2], L[1] >> ]_vars

\* C17: an adaptive_wait call with status 429 or a response time above 5 s
\* leaves the domain with a minimum interval of at least twice the one it had
\* before, and a call that is neither that nor a fast success (status 200,
\* under 1 s) leaves every limit as it was
C17_SlowDownDoublesInterval ==
    [][ (rhist'.reports # rhist.reports) =>
          LET d      == rhist'.domain
              rt     == rhist'.response_time
              sc     == rhist'.status_code
              before == MinWaitTime(DomainRate(domain_specific_limits, d))
              after  == MinWaitTime(DomainRate(domain_specific_limits', d))
          IN  /\ (sc = 429 \/ rt > 5000) =>
                    ~FracLess(after, << 2 * before[1], before[2] >>)
              /\ (~(sc = 429 \/ rt > 5000) /\ ~(sc = 200 /\ rt < 1000)) =>
                    domain_specific_limits' = domain_specific_limits ]_vars

\* a slow answer with status 200 was reported for a domain whose limit had
\* been raised to 0.55 requests/s: the limit is 0.275 requests/s
C17_Witness ==
    /\ rhist.reports = 2
    /\ rhist.response_time = 6000 /\ rhist.status_code = 200
    /\ domain_specific_limits[rhist.domain] = << 11, 40 >>

\* C18: no domain's limit exceeds 1 request per second after any adaptive_wait
\* call, and a fast success (status 200, under 1 s) leaves the domain with the
\* lower of 1.1 times its limit and 1, never with less than it had
C18_LimitCeiling ==
    [][ (rhist'.reports # rhist.reports) =>
          LET d      == rhist'.domain
              before == DomainRate(domain_specific_limits, d)
              after  == DomainRate(domain_specific_limits', d)
          IN  /\ \A e \in Domains :
                    ~FracLess(<< 1, 1 >>, DomainRate(domain_specific_limits', e))
              /\ (rhist'.status_code = 200 /\ rhist'.response_time < 1000) =>
                    /\ ~FracLess(after, before)
                    /\ after = IF before[1] * 11 <= before[2] * 10
                               THEN Frac(before[1] * 11, before[2] * 10)
                               ELSE << 1, 1 >> ]_vars

\* fast successes brought a domain's limit to the ceiling
C18_Witness ==
    /\ rhist.status_code = 200 /\ rhist.response_time = 500
    /\ domain_specific_limits[rhist.domain] = << 1, 1 >>

\* the proxy URLs of the pool entries that have one
PoolUrls ==
    { format_proxy_url(proxies[i])[1] :
        i \in { k \in 1..Len(proxies) : format_proxy_url(proxies[k]) # << >> } }

\* a step that is a call of get_next_proxy, and one of mark_proxy_failed
NextProxyCall == phist'.calls # phist.calls /\ phist'.op = "next"
MarkFailedCall == phist'.calls # phist.calls /\ phist'.op = "mark"

\* C19: once mark_proxy_failed was called with the proxy URL of every entry of
\* the pool, each of them a URL that get_next_proxy had returned, every call
\* of get_next_proxy returns None
C19_AllMarkedReturnsNone ==
    [][ (NextProxyCall /\ proxies # << >> /\ PoolUrls \subseteq phist.marked) =>
           phist'.last = << >> ]_vars

\* C20: mark_proxy_failed(p), p a URL that get_next_proxy returned, leaves the
\* pool entry of p in failed_proxies and p out of working_proxies, and changes
\* nothing when p was marked before; get_next_proxy never returns a URL that
\* was marked
C20_MarkedProxyExcluded ==
    [][ /\ MarkFailedCall =>
              LET p == phist'.arg[1]
              IN  /\ \A i \in 1..Len(proxies) :
                        format_proxy_url(proxies[i]) = << p >> =>
                           proxies[i] \in failed_proxies'
                  /\ ~InWorking(p, working_proxies')
                  /\ p \in phist.marked =>
                        UNCHANGED << proxies, current_index, rotation_count,
                                     failed_proxies, working_proxies >>
        /\ NextProxyCall =>
              \A p \in phist.marked : phist'.last # << p >> ]_vars

\* a step in which the observed fetch_url call got the answer to a request
Attempt == ftrace'.attempts = ftrace.attempts + 1

\* a step in which the observed fetch_url call returned
FetchReturned == ftrace.outcome = "pending" /\ ftrace'.outcome # "pending"

\* C21: a fetch_url call makes at most MAX_RETRIES requests; as long as every
\* answer was 403, 429 or a status >= 500 it goes on until the MAX_RETRIES-th
\* answer and then returns None, and process_url adds one to the failed
\* counter and leaves the successful counter and crawled_count alone
C21_RetriesExhausted ==
    [][ /\ ftrace'.attempts <= MAX_RETRIES
        /\ (Attempt /\ ftrace'.only_retryable) =>
              IF ftrace'.attempts < MAX_RETRIES
              THEN ftrace'.outcome = "pending" /\ stats' = stats
                   /\ crawled_count' = crawled_count
              ELSE /\ ftrace'.outcome = "none"
                   /\ stats'.failed = stats.failed + 1
                   /\ stats'.successful = stats.successful
                   /\ crawled_count' = crawled_count ]_vars

C21_Witness ==
    /\ ftrace.outcome = "none"
    /\ ftrace.only_retryable
    /\ ftrace.attempts = MAX_RETRIES
    /\ stats = [successful |-> 0, failed |-> 1]
    /\ crawled_count = 0

\* C22: an answer with a status below 500 that is not 200, not a redirect and
\* not 403 or 429 ends fetch_url with an error outcome that carries the
\* status: no request follows, no backoff sleep is made and the ProxyManager
\* is left as it was
C22_ClientErrorReturnsAtOnce ==
    [][ /\ (/\ Attempt
            /\ ftrace'.status \in Statuses
            /\ ftrace'.status < 500
            /\ ftrace'.status \notin { 200, 301, 302, 303, 307, 308, 403, 429 }) =>
               /\ ftrace'.outcome = "error"
               /\ ftrace'.code = << ftrace'.status >>
               /\ pc'[FetchWorker] # "fetch"
               /\ ftrace'.sleeps = ftrace.sleeps
               /\ UNCHANGED proxyVars
        /\ ftrace.outcome = "error" => ftrace'.attempts = ftrace.attempts ]_vars

C22_Witness ==
    /\ ftrace.outcome = "error"
    /\ ftrace.code = << 404 >>
    /\ ftrace.attempts = 2
    /\ ftrace.sleeps = 1
    /\ ftrace.used # << >>
    /\ pc[FetchWorker] = "loop"

\* C23: an answer with a redirect status puts the target, if it is internal and
\* admissible, into the queue at the depth of the redirecting URL, and
\* process_url changes neither the successful nor the failed counter
C23_RedirectNotCounted ==
    [][ (Attempt /\ ftrace'.status \in { 301, 302, 303, 307, 308 }) =>
           /\ \E loc \in Locations :
                url_queue' = PutAll(url_queue,
                                    RedirectAccepted(loc, visited_urls, visited_hashes),
                                    wdepth[FetchWorker])
           /\ stats' = stats ]_vars

\* C29: when fetch_url returns an error outcome, process_url adds one to the
\* failed counter and leaves the successful counter and crawled_count alone
C29_ErrorOutcomeCountedFailed ==
    [][ (FetchReturned /\ ftrace'.outcome = "error") =>
           /\ stats'.failed = stats.failed + 1
           /\ stats'.successful = stats.successful
           /\ crawled_count' = crawled_count ]_vars

\* the pool entries of a proxy URL
EntriesOf(proxy) ==
    { proxies[i] : i \in { k \in 1..Len(proxies) : format_proxy_url(proxies[k]) = proxy } }

\* C30: after an attempt through proxy p was answered 403 or 429, the pool
\* entry of p is in failed_proxies, and the next attempt of the call goes
\* through another proxy whose entry is not failed, or through none
C30_BlockedProxyGivenUp ==
    [][ (Attempt /\ ftrace'.status \in { 403, 429 } /\ ftrace'.used # << >>) =>
           /\ EntriesOf(ftrace'.used) \subseteq failed_proxies'
           /\ ftrace'.outcome = "pending" =>
                 /\ wproxy'[FetchWorker] # ftrace'.used
                 /\ EntriesOf(wproxy'[FetchWorker]) \cap failed_proxies' = {} ]_vars

\* the position of a key in the order of the keys
KeyIndex(k) == CHOOSE i \in 1..Len(KeyOrder) : KeyOrder[i] = k

\* how often a pair occurs in a query
Occurrences(q, pair) == Cardinality({ i \in 1..Len(q) : q[i] = pair })

\* C24: the query of normalize_url(url) holds the parameters of url whose key
\* is in the allow-list, each with its value and as often as in url, holds no
\* other parameter, and is ordered by key; ?id=1&foo=2&page=3 becomes
\* id=1&page=3 under the allow-list {id, page, category}
C24_QueryIsAllowListedParams ==
    probe.phase = 1 =>
        LET q == probe.url.query
            r == probe.once.query
        IN  /\ \A k \in QueryKeys, v \in QueryValues :
                 Occurrences(r, << k, v >>) =
                    IF k \in probe.allow THEN Occurrences(q, << k, v >>) ELSE 0
            /\ \A i, j \in 1..Len(r) : i < j => KeyIndex(r[i][1]) <= KeyIndex(r[j][1])
            /\ (q = << << "id", "1" >>, << "foo", "2" >>, << "page", "3" >> >>
                /\ probe.allow = { "id", "page", "category" })
                  => r = << << "id", "1" >>, << "page", "3" >> >>

\* the last segment of the path of the URL that should_crawl was asked about
FinalSegment ==
    SubSeq(probe.url.path, LastIndexOf(probe.url.path, "/") + 1, Len(probe.url.path))

\* the segment ends in an excluded extension, whatever the case of its letters
EndsInExcluded == \E e \in excluded_extensions : EndsWith(Lower(FinalSegment), e)

\* the segment has no trailing ".ext": no dot, or nothing after its last dot
NoTrailingExt ==
    \/ \A i \in 1..Len(FinalSegment) : FinalSegment[i] # "."
    \/ FinalSegment[Len(FinalSegment)] = "."

\* C25: for an internal, well-formed URL that was not visited, should_crawl is
\* false exactly when the last path segment ends in an excluded extension,
\* compared without regard to case; a segment without a trailing ".ext" is
\* never rejected
C25_RejectedExactlyForExtension ==
    (/\ probe.phase = 1
     /\ probe.url.netloc = base_domain
     /\ probe.url.scheme \in { sHttp, sHttps }
     /\ normalize_url(probe.url) \notin visited_urls
     /\ get_url_hash(probe.url) \notin visited_hashes) =>
        /\ ~probe.admit <=> EndsInExcluded
        /\ NoTrailingExt => probe.admit

C25_Witness ==
    /\ probe.phase = 1
    /\ probe.url.netloc = base_domain
    /\ probe.url.path = << "/", "j", ".", "J", "s" >>
    /\ visited_urls # {}
    /\ normalize_url(probe.url) \notin visited_urls
    /\ ~probe.admit

\* a step in which worker w ends the crawl from the timeout of queue.get()
TimeoutEnds(w) == pc[w] = "get" /\ pc'[w] = "exit" /\ url_queue = << >>

\* the entries of the queue that a worker would still fetch
LeftToFetch ==
    { i \in 1..Len(url_queue) :
        /\ ~DepthExceeded(url_queue[i][2])
        /\ should_crawl(url_queue[i][1], visited_urls, visited_hashes) }

\* C26: when a worker ends the crawl from the timeout of queue.get(), the queue
\* is empty and no other worker holds an item it took from the queue and has
\* not finished (waiting for the gate or in the rate limiter, or in its
\* process_url call); so when the workers of a crawl that was not paused and
\* did not reach max_pages have ended, the queue holds no admissible URL
C26_TimeoutMeansNothingLeft ==
    [][ /\ \A w \in Workers :
             TimeoutEnds(w) =>
                /\ url_queue' = << >>
                /\ \A v \in Workers \ { w } : pc[v] \notin PastRecheck
        /\ \A s \in Starts :
             (/\ spc[s] = "workers"
              /\ spc'[s] # "workers"
              /\ ~is_paused
              /\ ~PageLimitReached(crawled_count)) => LeftToFetch = {} ]_vars

\* pause() has set is_running to False and no resume() followed
PausedNow == is_paused /\ ~is_running

\* a step in which worker w takes an item from the queue
Dequeues(w) == pc[w] = "get" /\ pc'[w] # "get" /\ url_queue # << >>

\* C27 (the workers): once pause() has set is_running to False no worker takes
\* an item from the queue, a worker that was waiting in queue.get() included
C27_NoDequeueAfterPause ==
    [][ \A w \in Workers : Dequeues(w) => ~PausedNow ]_vars

\* C27 (the fetches): the steps of pause() move no worker, and a process_url
\* call that runs goes on to its end
C27_FetchesNotCancelled ==
    [][ /\ (ppc' # ppc \/ is_paused' # is_paused) => pc' = pc
        /\ \A w \in Workers :
             pc[w] \in InProcess => pc'[w] \in InProcess \cup { "loop" } ]_vars

\* C27: both parts
C27_PauseStopsDequeueing ==
    [][ /\ \A w \in Workers : Dequeues(w) => ~PausedNow
        /\ (ppc' # ppc \/ is_paused' # is_paused) => pc' = pc
        /\ \A w \in Workers :
             pc[w] \in InProcess => pc'[w] \in InProcess \cup { "loop" } ]_vars

\* C28: the queue never holds two entries whose URLs have the same normalized
\* form, and no step (seeding, sitemap, links, redirect, resume) appends a URL
\* whose normalized form is in the queue already
C28_QueueHasNoDuplicates ==
    \A i \in 1..Len(url_queue) : \A j \in 1..Len(url_queue) :
        i # j => normalize_url(url_queue[i][1]) # normalize_url(url_queue[j][1])

\* C31: when an attempt of fetch_url is answered 429, the outcome is reported
\* to the rate limiter and the limit of the domain is lower afterwards, before
\* the next request to the domain
C31_BlockedAnswerLowersLimit ==
    [][ (Attempt /\ ftrace'.status = 429) =>
           FracLess(DomainRate(domain_specific_limits', "ex"),
                    DomainRate(domain_specific_limits, "ex")) ]_vars

\* the pool entries that are well-formed and not failed
UsableEntries ==
    { i \in 1..Len(proxies) :
        proxies[i] \notin failed_proxies /\ format_proxy_url(proxies[i]) # << >> }

\* C34: while the pool holds at least two proxies that are not failed, no
\* proxy is returned by more than rotation_limit consecutive grants of
\* get_next_proxy, whichever branch (best working proxy or round robin) the
\* grants take
C34_ForcedRotation ==
    Cardinality(UsableEntries) >= 2 => phist.streak <= rotation_limit

\* C40: mark_proxy_failed(p) adds to failed_proxies no entry but the one p was
\* formatted from, and takes no proxy but p out of working_proxies
C40_MarkFailedTouchesOneEntry ==
    [][ MarkFailedCall =>
           /\ (failed_proxies' \ failed_proxies) \subseteq EntriesOf(phist'.arg)
           /\ working_proxies' \in { working_proxies,
                                     DelWorking(phist'.arg[1], working_proxies) } ]_vars

\* an attempt of the observed fetch_url call that raised
RaisedAttempt == Attempt /\ ftrace'.status = 0

\* C35: an attempt that raises before the MAX_RETRIES-th one is followed by a
\* backoff sleep and one more attempt, and the MAX_RETRIES-th attempt that
\* raises makes fetch_url return the error dict, with status_code 0, and never
\* None
C35_ExceptionNeverEscapes ==
    [][ RaisedAttempt =>
           IF ftrace'.attempts < MAX_RETRIES
           THEN /\ ftrace'.outcome = "pending"
                /\ ftrace'.sleeps = ftrace.sleeps + 1
                /\ pc'[FetchWorker] = "fetch"
           ELSE /\ ftrace'.outcome = "error"
                /\ ftrace'.code = << 0 >> ]_vars

\* the last attempt raised after two attempts that raised too
C35_Witness ==
    /\ ftrace.attempts = MAX_RETRIES
    /\ ftrace.status = 0
    /\ ftrace.sleeps = MAX_RETRIES - 1
    /\ ftrace.outcome = "error"

\* C38: on one frontier state, two URLs with the same normalize_url get the
\* same answer from should_crawl
C38_SameFormSameAnswer ==
    (/\ probe.phase = 2
     /\ normalize_url(probe.url) = normalize_url(probe.other)) =>
        probe.admit = probe.admit_other

\* a step in which the process_url call of worker w is over
IterationEnds(w) ==
    pc[w] \in { "fetch", "save_page", "save_links" } /\ pc'[w] \notin TaskPcs

\* C33: whatever way the process_url call of a worker ends (fetch_url returned
\* None or an error outcome, save_page gave no id), the worker is back at the
\* head of its loop with the gate's permit returned and is_running as it was;
\* and when process_url ends after save_page without going on to save_links,
\* no link row is stored and nothing is put on the queue
C33_FailureLeavesLoopRunning ==
    [][ \A w \in Workers :
          /\ IterationEnds(w) =>
                /\ pc'[w] = "loop"
                /\ is_running' = is_running
                /\ semaphore' = semaphore + 1
          /\ (pc[w] = "save_page" /\ IterationEnds(w)) =>
                /\ db_links' = db_links
                /\ url_queue' = url_queue ]_vars

\* after a failed fetch a worker of the running crawl waits for the next item
C33_Witness ==
    /\ stats.failed >= 1
    /\ is_running
    /\ url_queue # << >>
    /\ \E w \in Workers : pc[w] = "get"

\* the workers inside the async with of line 210
GateHolders ==
    { w \in Workers : pc[w] \in { "rl_wait", "rl_sleep" } \cup TaskPcs }

\* the workers inside the async with of rate_limiter.py:48
MutexHolders == { w \in Workers : pc[w] = "rl_sleep" }

\* the workers suspended on the gate or on the domain's semaphore
Blocked == { w \in Workers : pc[w] \in { "gate_wait", "rl_wait" } }

\* a worker whose next step waits for no semaphore
CanStep(w) ==
    \/ pc[w] \in { "rl_sleep" } \cup TaskPcs
    \/ pc[w] = "gate_wait" /\ semaphore > 0
    \/ pc[w] = "rl_wait" /\ ~rl_locked

\* C32: the permits of the gate are held by exactly the workers inside its
\* async with and the domain's semaphore by exactly the one worker inside
\* wait(), so a worker that left the iteration on any path holds neither; and
\* whenever workers are suspended on the gate or on the domain's semaphore,
\* some worker can take a step without waiting for either
C32_GateAndMutexCompose ==
    /\ semaphore + Cardinality(GateHolders) = concurrency
    /\ rl_locked <=> MutexHolders # {}
    /\ Cardinality(MutexHolders) <= 1
    /\ Blocked # {} => \E w \in Workers : CanStep(w)

\* a worker waits for the gate while the holder of its only permit holds the
\* domain's semaphore too
C32_Witness ==
    /\ \E w \in Workers : pc[w] = "gate_wait"
    /\ semaphore = 0
    /\ rl_locked

\* the start() executions that were entered and have not returned
ActiveStarts == { s \in Starts : spc[s] \notin { "idle", "done", "raised" } }

\* the worker coroutines that were created and have not returned
AliveWorkers == { w \in Workers : pc[w] \notin { "idle", "exit" } }

\* C36: at most one start() execution is active and at most concurrency worker
\* loops are alive
C36_OneStartAtATime ==
    /\ Cardinality(ActiveStarts) <= 1
    /\ Cardinality(AliveWorkers) <= concurrency

StartReturned ==
    /\ spc[1] = "done"
    /\ ~is_running
    /\ \A w \in LiveWorkers : pc[w] = "exit"

\* C37: the one start() of a crawl without pause and without max_pages
\* returns in the end, with an empty queue, every worker loop over and
\* is_running false
C37_StartReturnsDrained ==
    /\ <>StartReturned
    /\ [](StartReturned => url_queue = << >>)

\* start() does return
StartEventuallyReturns == <>StartReturned

====
